---- MODULE Spec2Model ----
(***************************************************************************)
(* ContractBERTAnalyzer (src/contract_models.py): clause classification,   *)
(* risk tiers and per-jurisdiction summaries.                              *)
(*                                                                         *)
(* Numbers.  Probabilities and confidences are integers in units of        *)
(* 1/Scale (Scale = 10 * Milli), so 0.7 is 7000 and round(x, 3) yields a   *)
(* multiple of 10.  A ratio a/total > p/q is compared exactly, as          *)
(* a*q > p*total: Python's a/total and the literal p/q are both the        *)
(* correctly rounded doubles of the exact quotients, rounding is monotone, *)
(* and two distinct quotients with denominators this small are many ulps   *)
(* apart, so the float comparison and the exact one agree.                 *)
(***************************************************************************)
EXTENDS Integers, Sequences, FiniteSets, TLC

VARIABLES
    us_model,           \* self.us_model:         "None", "primary" or "fallback"
    indian_model,       \* self.indian_model
    us_tokenizer,       \* self.us_tokenizer
    indian_tokenizer,   \* self.indian_tokenizer
    pc,                 \* position of the caller inside the current method call
    call,               \* the current (or last) call: method name and arguments
    clauses,            \* analyze_contract: the list extract_clauses returned
    clause_analyses,    \* analyze_contract: the list built by the loop
    invocations,        \* what the capability did in each classify_clause of this call
    ret,                \* outcome of the last completed call
    session_state,      \* st.session_state of the application (src/app.py): analysis_results
    analysis_results    \* the local analysis_results of the application's analyze_contract

vars == <<us_model, indian_model, us_tokenizer, indian_tokenizer,
          pc, call, clauses, clause_analyses, invocations, ret,
          session_state, analysis_results>>

models == <<us_model, indian_model, us_tokenizer, indian_tokenizer>>

app == <<session_state, analysis_results>>

----------------------------------------------------------------------------
(* Bounds of the model *)

MaxCount == 10          \* each of the high / medium / low counts is 0..MaxCount
MaxClauses == 5         \* a contract segments into 0..MaxClauses clauses
MaxUnits == 5           \* a text handed to extract_clauses has 0..MaxUnits sentences
MaxLabels == 5          \* the summaries handed to the comparison use MaxLabels labels

----------------------------------------------------------------------------
(* Program constants *)

Milli == 1000           \* round(x, 3): three decimals
Scale == 10 * Milli     \* resolution of a probability in the model
HighThreshold == 7000   \* confidence > 0.7
MediumThreshold == 6000 \* confidence > 0.6

us_clause_types ==
    << "Termination", "Payment", "Liability", "Confidentiality",
       "Intellectual Property", "Governing Law", "Dispute Resolution",
       "Force Majeure", "Indemnification", "Warranties", "Deliverables", "Term" >>

indian_clause_types ==
    << "Termination", "Payment", "Liability", "Confidentiality",
       "Intellectual Property", "Governing Law", "Dispute Resolution",
       "Force Majeure", "Indemnification", "Warranties", "Deliverables",
       "Term", "Compliance", "Registration", "Stamp Duty" >>

high_risk_clauses == << "Liability", "Indemnification", "Termination", "Governing Law" >>

\* A plausible slip: a label of the high bucket listed in the medium bucket too.
MediumRiskClausesWithLiability ==
    << "Payment", "Intellectual Property", "Confidentiality", "Liability" >>

medium_risk_clauses ==<< "Payment", "Intellectual Property", "Confidentiality" >>

Range(s) == { s[i] : i \in DOMAIN s }

None == "None"

\* None where the other values are dicts
Unset == [unset |-> TRUE]
NoRet == [op |-> "none"]

----------------------------------------------------------------------------
(* _determine_risk_level *)

\* A plausible slip: the high bucket's comparison made non-strict.
DetermineRiskLevelHighNonStrict(clause_type, confidence) ==
    IF clause_type \in Range(high_risk_clauses)
    THEN IF confidence >= HighThreshold THEN "high" ELSE "medium"
    ELSE IF clause_type \in Range(medium_risk_clauses)
    THEN IF confidence > MediumThreshold THEN "medium" ELSE "low"
    ELSE "low"

\* A plausible slip: the medium bucket's comparison made non-strict.
DetermineRiskLevelMediumNonStrict(clause_type, confidence) ==
    IF clause_type \in Range(high_risk_clauses)
    THEN IF confidence > HighThreshold THEN "high" ELSE "medium"
    ELSE IF clause_type \in Range(medium_risk_clauses)
    THEN IF confidence >= MediumThreshold THEN "medium" ELSE "low"
    ELSE "low"

\* A plausible slip: the default tier of the unlisted labels set to medium.
DetermineRiskLevelDefaultMedium(clause_type, confidence) ==
    IF clause_type \in Range(high_risk_clauses)
    THEN IF confidence > HighThreshold THEN "high" ELSE "medium"
    ELSE IF clause_type \in Range(medium_risk_clauses)
    THEN IF confidence > MediumThreshold THEN "medium" ELSE "low"
    ELSE "medium"

_determine_risk_level(clause_type, confidence) ==
    IF clause_type \in Range(high_risk_clauses)
    THEN IF confidence > HighThreshold THEN "high" ELSE "medium"
    ELSE IF clause_type \in Range(medium_risk_clauses)
    THEN IF confidence > MediumThreshold THEN "medium" ELSE "low"
    ELSE "low"

----------------------------------------------------------------------------
(* _calculate_overall_risk *)

\* a/total > p/q, for total > 0 and q > 0
RatioGreater(a, total, p, q) == a * q > p * total

\* A plausible slip: the 0.3 comparison made non-strict.
CalculateOverallRiskNonStrict(risk_counts) ==
    LET total == risk_counts["high"] + risk_counts["medium"] + risk_counts["low"]
    IN  IF total = 0 THEN "low"
        ELSE IF risk_counts["high"] * 10 >= 3 * total THEN "high"
        ELSE IF \/ RatioGreater(risk_counts["high"], total, 1, 10)
                \/ RatioGreater(risk_counts["medium"], total, 5, 10)
             THEN "medium"
        ELSE "low"

\* A plausible slip: the medium ratio left out of the second test.
CalculateOverallRiskHighOnly(risk_counts) ==
    LET total == risk_counts["high"] + risk_counts["medium"] + risk_counts["low"]
    IN  IF total = 0 THEN "low"
        ELSE IF RatioGreater(risk_counts["high"], total, 3, 10) THEN "high"
        ELSE IF RatioGreater(risk_counts["high"], total, 1, 10) THEN "medium"
        ELSE "low"

_calculate_overall_risk(risk_counts) ==
    LET total == risk_counts["high"] + risk_counts["medium"] + risk_counts["low"]
    IN  IF total = 0 THEN "low"
        ELSE IF RatioGreater(risk_counts["high"], total, 3, 10) THEN "high"
        ELSE IF \/ RatioGreater(risk_counts["high"], total, 1, 10)
                \/ RatioGreater(risk_counts["medium"], total, 5, 10)
             THEN "medium"
        ELSE "low"

----------------------------------------------------------------------------
(* Strings.  A string is the sequence of its maximal runs of one character, *)
(* [ch, n] standing for n copies of ch; slicing and concatenation work on   *)
(* characters, as Python's do.                                              *)

RECURSIVE StrLen(_)
StrLen(s) == IF s = << >> THEN 0 ELSE Head(s).n + StrLen(Tail(s))

\* s[:k]
RECURSIVE StrTake(_, _)
StrTake(s, k) ==
    IF k <= 0 \/ s = << >> THEN << >>
    ELSE IF Head(s).n >= k THEN << [ch |-> Head(s).ch, n |-> k] >>
    ELSE << Head(s) >> \o StrTake(Tail(s), k - Head(s).n)

\* s + t
StrConcat(s, t) ==
    IF s = << >> THEN t
    ELSE IF t = << >> THEN s
    ELSE IF s[Len(s)].ch = Head(t).ch
    THEN SubSeq(s, 1, Len(s) - 1)
            \o << [ch |-> Head(t).ch, n |-> s[Len(s)].n + Head(t).n] >>
            \o Tail(t)
    ELSE s \o t

Ellipsis == << [ch |-> ".", n |-> 3] >>

\* the preview that cuts a clause of exactly 200 characters as well
PreviewNonStrict(clause) ==
    IF StrLen(clause) >= 200 THEN StrConcat(StrTake(clause, 200), Ellipsis) ELSE clause

\* clause[:200] + "..." if len(clause) > 200 else clause
Preview(clause) ==
    IF StrLen(clause) > 200 THEN StrConcat(StrTake(clause, 200), Ellipsis) ELSE clause

----------------------------------------------------------------------------
(* extract_clauses and the str / re operations it uses, on run sequences.   *)
(* The texts of the model are written with the space, the newline, the      *)
(* period, the closing parenthesis, digits and ASCII letters.               *)

WhiteSpace == { " ", "\n" }

Digits == { "0", "1", "2", "3", "4", "5", "6", "7", "8", "9" }

UpperCase ==
    << "A", "B", "C", "D", "E", "F", "G", "H", "I", "J", "K", "L", "M",
       "N", "O", "P", "Q", "R", "S", "T", "U", "V", "W", "X", "Y", "Z" >>

LowerCase ==
    << "a", "b", "c", "d", "e", "f", "g", "h", "i", "j", "k", "l", "m",
       "n", "o", "p", "q", "r", "s", "t", "u", "v", "w", "x", "y", "z" >>

\* the maximal runs of a sequence of runs whose neighbours may share a character
RECURSIVE Canon(_)
Canon(s) == IF s = << >> THEN << >> ELSE StrConcat(<< Head(s) >>, Canon(Tail(s)))

\* the string written as the sequence of its characters
Str(chars) == Canon([i \in DOMAIN chars |-> [ch |-> chars[i], n |-> 1]])

\* s.replace(old, new), for single characters
StrReplace(s, old, new) ==
    Canon([i \in DOMAIN s |-> [ch |-> IF s[i].ch = old THEN new ELSE s[i].ch, n |-> s[i].n]])

\* s.lower()
StrLower(s) ==
    LET lower(ch) == IF \E i \in DOMAIN UpperCase : UpperCase[i] = ch
                     THEN LowerCase[CHOOSE i \in DOMAIN UpperCase : UpperCase[i] = ch]
                     ELSE ch
    IN  Canon([i \in DOMAIN s |-> [ch |-> lower(s[i].ch), n |-> s[i].n]])

\* s.strip()
RECURSIVE StrStrip(_)
StrStrip(s) ==
    IF s = << >> THEN << >>
    ELSE IF Head(s).ch \in WhiteSpace THEN StrStrip(Tail(s))
    ELSE IF s[Len(s)].ch \in WhiteSpace THEN StrStrip(SubSeq(s, 1, Len(s) - 1))
    ELSE s

\* s.startswith(prefix)
StrStartsWith(s, prefix) == StrTake(s, StrLen(prefix)) = prefix

\* s.endswith('.')
EndsWithPeriod(s) == s # << >> /\ s[Len(s)].ch = "."

\* s.split('\n\n'), continued after the piece cur: matches are taken left to
\* right, so a run of n newlines holds n \div 2 separators and leaves n % 2
\* newlines to the next piece
RECURSIVE SplitBlankLinesFrom(_, _)
SplitBlankLinesFrom(s, cur) ==
    IF s = << >> THEN << cur >>
    ELSE IF Head(s).ch = "\n" /\ Head(s).n >= 2
    THEN << cur >>
            \o [i \in 1..((Head(s).n \div 2) - 1) |-> << >>]
            \o SplitBlankLinesFrom(Tail(s), IF Head(s).n % 2 = 1
                                            THEN << [ch |-> "\n", n |-> 1] >>
                                            ELSE << >>)
    ELSE SplitBlankLinesFrom(Tail(s), cur \o << Head(s) >>)

SplitBlankLines(s) == SplitBlankLinesFrom(s, << >>)

\* the lookahead (?=\s+[A-Z]) after the last character of run i
BeforeUpperCase(s, i) ==
    \E j \in (i + 2)..Len(s) :
        /\ \A k \in (i + 1)..(j - 1) : s[k].ch \in WhiteSpace
        /\ s[j].ch \in Range(UpperCase)

\* re.split(r'\.(?=\s+[A-Z])', s), continued from run i after the piece cur:
\* only the last period of a run of periods can be followed by whitespace
RECURSIVE SplitSentencesFrom(_, _, _)
SplitSentencesFrom(s, i, cur) ==
    IF i > Len(s) THEN << cur >>
    ELSE IF s[i].ch = "." /\ BeforeUpperCase(s, i)
    THEN << cur \o (IF s[i].n > 1 THEN << [ch |-> ".", n |-> s[i].n - 1] >> ELSE << >>) >>
            \o SplitSentencesFrom(s, i + 1, << >>)
    ELSE SplitSentencesFrom(s, i + 1, cur \o << s[i] >>)

SplitSentences(s) == SplitSentencesFrom(s, 1, << >>)

\* re.match(r'^\d+[\.\)]\s*$', s)
MatchesNumbering(s) ==
    \E k \in 1..(Len(s) - 1) :
        /\ \A i \in 1..k : s[i].ch \in Digits
        /\ s[k + 1].ch \in { ".", ")" } /\ s[k + 1].n = 1
        /\ \A i \in (k + 2)..Len(s) : s[i].ch \in WhiteSpace

RECURSIVE Flatten(_)
Flatten(ss) == IF ss = << >> THEN << >> ELSE Head(ss) \o Flatten(Tail(ss))

\* the length both passes require a clause to exceed, and the length above
\* which a paragraph is split into sentences
MinClauseLen == 50

LongParagraphLen == 500

\* the number of clauses below which the paragraph pass is discarded
MinParagraphClauses == 5

\* line 168
paragraph_prefixes ==
    << Str(<< "w", "h", "e", "r", "e", "a", "s" >>),
       Str(<< "t", "h", "i", "s", " ", "a", "g", "r", "e", "e", "m", "e", "n", "t" >>),
       Str(<< "t", "h", "e", " ", "p", "a", "r", "t", "i", "e", "s" >>),
       Str(<< "p", "a", "g", "e", " " >>),
       Str(<< "e", "x", "h", "i", "b", "i", "t" >>) >>

\* line 188
sentence_prefixes == SubSeq(paragraph_prefixes, 1, 3)

\* s.lower().startswith(prefixes)
StartsWithAny(s, prefixes) ==
    \E i \in DOMAIN prefixes : StrStartsWith(StrLower(s), prefixes[i])

\* sentence + '.' if not sentence.endswith('.') else sentence
Terminated(sentence) ==
    IF ~EndsWithPeriod(sentence) THEN StrConcat(sentence, << [ch |-> ".", n |-> 1] >>)
    ELSE sentence

\* A plausible slip: the period is appended to every kept sentence, whether
\* or not it ends with one (line 177).
SentenceClausesAlwaysAppends(paragraph) ==
    LET sentences == SplitSentences(paragraph)
        stripped == [i \in DOMAIN sentences |-> StrStrip(sentences[i])]
        kept == SelectSeq(stripped, LAMBDA sentence : StrLen(sentence) > MinClauseLen)
    IN  [i \in DOMAIN kept |-> StrConcat(kept[i], << [ch |-> ".", n |-> 1] >>)]

\* lines 173-177: the clauses of a paragraph longer than 500 characters
SentenceClauses(paragraph) ==
    LET sentences == SplitSentences(paragraph)
        stripped == [i \in DOMAIN sentences |-> StrStrip(sentences[i])]
        kept == SelectSeq(stripped, LAMBDA sentence : StrLen(sentence) > MinClauseLen)
    IN  [i \in DOMAIN kept |-> Terminated(kept[i])]

\* lines 164-179: the clauses one element of paragraphs contributes
ParagraphClauses(raw) ==
    LET paragraph == StrReplace(StrStrip(raw), "\n", " ")
    IN  IF /\ StrLen(paragraph) > MinClauseLen
           /\ ~StartsWithAny(paragraph, paragraph_prefixes)
           /\ ~MatchesNumbering(paragraph)
        THEN IF StrLen(paragraph) > LongParagraphLen
             THEN SentenceClauses(paragraph)
             ELSE << paragraph >>
        ELSE << >>

\* lines 160-179
ParagraphPass(contract_text) ==
    LET paragraphs == SplitBlankLines(contract_text)
    IN  Flatten([i \in DOMAIN paragraphs |-> ParagraphClauses(paragraphs[i])])

\* lines 183-189
SentenceFallback(contract_text) ==
    LET sentences == SplitSentences(contract_text)
        cleaned == [i \in DOMAIN sentences |-> StrReplace(StrStrip(sentences[i]), "\n", " ")]
        kept == SelectSeq(cleaned, LAMBDA sentence :
                    /\ StrLen(sentence) > MinClauseLen
                    /\ ~StartsWithAny(sentence, sentence_prefixes))
    IN  [i \in DOMAIN kept |-> Terminated(kept[i])]

\* A plausible slip: the fallback appends to the clauses of the paragraph
\* pass instead of starting from an empty list (line 184).
ExtractClausesKeepsParagraphPass(contract_text) ==
    LET clauses_1 == ParagraphPass(contract_text)
    IN  IF Len(clauses_1) < MinParagraphClauses
        THEN clauses_1 \o SentenceFallback(contract_text)
        ELSE clauses_1

extract_clauses(contract_text) ==
    LET clauses_1 == ParagraphPass(contract_text)
    IN  IF Len(clauses_1) < MinParagraphClauses
        THEN SentenceFallback(contract_text)
        ELSE clauses_1

----------------------------------------------------------------------------
(* The scoring capability: tokenizer + model.  One invocation either raises *)
(* or yields the softmax row predictions[0], one probability per label of   *)
(* the model's head (loaded with num_labels = len(clause_types)).           *)

TokenizerRaises == [kind |-> "tokenizer_raises"]
ModelRaises == [kind |-> "model_raises"]
NotCalled == [kind |-> "not_called"]

\* a softmax row with mass c on label k and the rest spread evenly
Spread(k, c, n) ==
    LET rest == Scale - c
        base == rest \div (n - 1)
        extra == rest % (n - 1)
        pos(i) == IF i < k THEN i ELSE i - 1    \* rank of i among the other labels
    IN  [i \in 1..n |-> IF i = k THEN c
                        ELSE IF pos(i) <= extra THEN base + 1 ELSE base]

\* a softmax row with mass c on label k and the rest on the next label
Peaked(k, c, n) ==
    [i \in 1..n |-> IF i = k THEN c ELSE IF i = (k % n) + 1 THEN Scale - c ELSE 0]

\* probabilities of the winning label the capability may return: both thresholds,
\* their neighbours, exact rounding ties (0.5625, 0.6875), and the extremes
TopProbs == {1000, 5625, 6000, 6004, 6875, 7000, 7004, 9996, Scale}

UniqueMax(p, k) == \A i \in DOMAIN p : i # k => p[i] < p[k]

\* the rows the capability may return: every label wins with every TopProbs mass,
\* the rest spread evenly; the first label also with the rest on one label
Predictions(n) ==
    { p \in { Spread(k, c, n) : k \in 1..n, c \in TopProbs }
            \cup { Peaked(1, c, n) : c \in TopProbs } :
        \E k \in 1..n : UniqueMax(p, k) }

\* every outcome of one invocation, for a head of n labels
Outcomes(n) ==
    {TokenizerRaises, ModelRaises} \cup { [kind |-> "ok", predictions |-> p] : p \in Predictions(n) }

\* the outcomes the analysis loop draws from, per clause, for a head of n
\* labels: a failure, a high-bucket label (Liability) just above its
\* threshold, the last label for certain.  With both jurisdictions requested
\* the 12-label head draws the first two and the 15-label head the first and
\* the last.
LoopOutcomes(n, jurisdiction) ==
    { ModelRaises }
        \cup (IF jurisdiction = "both" /\ n # Len(us_clause_types)
              THEN {} ELSE { [kind |-> "ok", predictions |-> Spread(3, 7004, n)] })
        \cup (IF jurisdiction = "both" /\ n = Len(us_clause_types)
              THEN {} ELSE { [kind |-> "ok", predictions |-> Spread(n, Scale, n)] })

\* predictions.argmax()
ArgMax(p) == CHOOSE k \in DOMAIN p : \A i \in DOMAIN p : p[i] <= p[k]

\* round(x, 3) of x in units of 1/Scale: nearest multiple of 10, ties to even
Round3(x) ==
    LET q == x \div 10
        r == x % 10
    IN  IF r < 5 THEN 10 * q
        ELSE IF r > 5 THEN 10 * (q + 1)
        ELSE IF q % 2 = 0 THEN 10 * q ELSE 10 * (q + 1)

----------------------------------------------------------------------------
(* _classify_with_model *)

\* A plausible slip: the failure path's default tier set to low.
ClassificationErrorLow(e) ==
    [clause_type |-> "Unknown", confidence |-> 0, risk_level |-> "low", error |-> e]

ClassificationError(e) ==
    [clause_type |-> "Unknown", confidence |-> 0, risk_level |-> "medium", error |-> e]

\* A plausible slip: the reported confidence left unrounded.
ClassifyWithModelRawConfidence(text, model, tokenizer, clause_types, outcome) ==
    IF tokenizer = None THEN ClassificationError("'NoneType' object is not callable")
    ELSE IF outcome.kind = "tokenizer_raises" THEN ClassificationError("tokenizer")
    ELSE IF model = None THEN ClassificationError("'NoneType' object is not callable")
    ELSE IF outcome.kind = "model_raises" THEN ClassificationError("model")
    ELSE
        LET predictions == outcome.predictions
            predicted_class_id == ArgMax(predictions)
            confidence == predictions[predicted_class_id]
            clause_type == clause_types[predicted_class_id]
            risk_level == _determine_risk_level(clause_type, confidence)
        IN  [clause_type |-> clause_type,
             confidence |-> confidence,
             risk_level |-> risk_level,
             all_scores |-> [l \in Range(clause_types) |->
                                Round3(predictions[CHOOSE i \in DOMAIN clause_types :
                                                        clause_types[i] = l])]]

_classify_with_model(text, model, tokenizer, clause_types, outcome) ==
    IF tokenizer = None THEN ClassificationError("'NoneType' object is not callable")
    ELSE IF outcome.kind = "tokenizer_raises" THEN ClassificationError("tokenizer")
    ELSE IF model = None THEN ClassificationError("'NoneType' object is not callable")
    ELSE IF outcome.kind = "model_raises" THEN ClassificationError("model")
    ELSE
        LET predictions == outcome.predictions
            predicted_class_id == ArgMax(predictions)
            confidence == predictions[predicted_class_id]
            clause_type == clause_types[predicted_class_id]
            risk_level == _determine_risk_level(clause_type, confidence)
        IN  [clause_type |-> clause_type,
             confidence |-> Round3(confidence),
             risk_level |-> risk_level,
             all_scores |-> [l \in Range(clause_types) |->
                                Round3(predictions[CHOOSE i \in DOMAIN clause_types :
                                                        clause_types[i] = l])]]

----------------------------------------------------------------------------
(* classify_clause *)

EmptyDict == [x \in {} |-> x]

\* A plausible slip: the us branch copied from the indian one, so that it
\* invokes the indian capability and reads the indian label list.
ClassifyClauseIndianLabelsForUs(self, text, jurisdiction, us_out, indian_out) ==
    LET r1 == IF jurisdiction \in {"us", "both"}
              THEN "us" :> _classify_with_model(text, self.indian_model, self.indian_tokenizer,
                                                indian_clause_types,
                                                IF indian_out # NotCalled THEN indian_out
                                                ELSE IF us_out.kind # "ok" THEN us_out
                                                ELSE [kind |-> "ok", predictions |->
                                                        Spread(ArgMax(us_out.predictions),
                                                               us_out.predictions[
                                                                   ArgMax(us_out.predictions)],
                                                               Len(indian_clause_types))])
              ELSE EmptyDict
        r2 == IF jurisdiction \in {"indian", "both"}
              THEN "indian" :> _classify_with_model(text, self.indian_model,
                                                    self.indian_tokenizer,
                                                    indian_clause_types, indian_out)
              ELSE EmptyDict
    IN  r1 @@ r2

\* A plausible slip: one try / except around both classifications, so that a
\* failure under one jurisdiction degrades both results.
ClassifyClauseSharedTry(self, text, jurisdiction, us_out, indian_out) ==
    LET us == _classify_with_model(text, self.us_model, self.us_tokenizer,
                                   us_clause_types, us_out)
        indian == _classify_with_model(text, self.indian_model, self.indian_tokenizer,
                                       indian_clause_types, indian_out)
    IN  IF jurisdiction = "both"
        THEN IF "error" \in DOMAIN us THEN [j \in {"us", "indian"} |-> us]
             ELSE IF "error" \in DOMAIN indian THEN [j \in {"us", "indian"} |-> indian]
             ELSE [j \in {"us", "indian"} |-> IF j = "us" THEN us ELSE indian]
        ELSE IF jurisdiction = "us" THEN "us" :> us
        ELSE IF jurisdiction = "indian" THEN "indian" :> indian
        ELSE EmptyDict

\* A plausible slip: the second test of the jurisdiction written as elif
\* (line 93), so that "both" classifies under us only.
ClassifyClauseElif(self, text, jurisdiction, us_out, indian_out) ==
    IF jurisdiction \in {"us", "both"}
    THEN "us" :> _classify_with_model(text, self.us_model, self.us_tokenizer,
                                      us_clause_types, us_out)
    ELSE IF jurisdiction \in {"indian", "both"}
    THEN "indian" :> _classify_with_model(text, self.indian_model, self.indian_tokenizer,
                                          indian_clause_types, indian_out)
    ELSE EmptyDict

\* self: the analyzer's four fields; us_out / indian_out: what the capability
\* does when invoked for this clause
classify_clause(self, text, jurisdiction, us_out, indian_out) ==
    LET r1 == IF jurisdiction \in {"us", "both"}
              THEN "us" :> _classify_with_model(text, self.us_model, self.us_tokenizer,
                                                us_clause_types, us_out)
              ELSE EmptyDict
        r2 == IF jurisdiction \in {"indian", "both"}
              THEN "indian" :> _classify_with_model(text, self.indian_model,
                                                    self.indian_tokenizer,
                                                    indian_clause_types, indian_out)
              ELSE EmptyDict
    IN  r1 @@ r2

----------------------------------------------------------------------------
(* load_models, _load_fallback_models *)

\* the order in which both loaders assign the fields
LoadOrder == << "us_tokenizer", "us_model", "indian_tokenizer", "indian_model" >>

\* how a loader run ends: after `done` assignments it raises, or it completes
LoadOutcomes ==
    { [raises |-> FALSE, done |-> Len(LoadOrder)] }
        \cup { [raises |-> TRUE, done |-> k] : k \in 0..Len(LoadOrder) }

Assigned(self, k, source) ==
    [f \in DOMAIN self |->
        IF \E i \in 1..k : LoadOrder[i] = f THEN source ELSE self[f]]

_load_fallback_models(self, fallback) ==
    [self |-> Assigned(self, fallback.done, "fallback"), raised |-> fallback.raises]

load_models(self, primary, fallback) ==
    IF ~primary.raises
    THEN [self |-> Assigned(self, Len(LoadOrder), "primary"), raised |-> FALSE]
    ELSE _load_fallback_models(Assigned(self, primary.done, "primary"), fallback)

----------------------------------------------------------------------------
(* _generate_summary *)

\* A plausible slip: the guard of line 226 dropped, so that every requested
\* jurisdiction gets a summary, of zeros when no analysis has it.
GenerateSummaryUnguarded(analyses, jurisdiction) ==
    LET jurisdictions == IF jurisdiction = "both" THEN {"us", "indian"} ELSE {jurisdiction}
        has(juris) == { i \in DOMAIN analyses : juris \in DOMAIN analyses[i] }
        risk_counts(juris) ==
            [level \in {"high", "medium", "low"} |->
                Cardinality({ i \in has(juris) : analyses[i][juris].risk_level = level })]
        clause_type_counts(juris) ==
            [t \in { analyses[i][juris].clause_type : i \in has(juris) } |->
                Cardinality({ i \in has(juris) : analyses[i][juris].clause_type = t })]
    IN  [juris \in jurisdictions |->
            [risk_distribution |-> risk_counts(juris),
             clause_types |-> clause_type_counts(juris),
             overall_risk |-> _calculate_overall_risk(risk_counts(juris))]]

\* A plausible slip: the risk counts built like the clause type counts, from
\* an empty dict with .get(level, 0) + 1, so that only observed levels appear.
GenerateSummaryObservedLevels(analyses, jurisdiction) ==
    LET jurisdictions == IF jurisdiction = "both" THEN {"us", "indian"} ELSE {jurisdiction}
        has(juris) == { i \in DOMAIN analyses : juris \in DOMAIN analyses[i] }
        risk_counts(juris) ==
            [level \in { analyses[i][juris].risk_level : i \in has(juris) } |->
                Cardinality({ i \in has(juris) : analyses[i][juris].risk_level = level })]
        all_counts(juris) ==
            [level \in {"high", "medium", "low"} |->
                Cardinality({ i \in has(juris) : analyses[i][juris].risk_level = level })]
        clause_type_counts(juris) ==
            [t \in { analyses[i][juris].clause_type : i \in has(juris) } |->
                Cardinality({ i \in has(juris) : analyses[i][juris].clause_type = t })]
    IN  [juris \in { j \in jurisdictions : has(j) # {} } |->
            [risk_distribution |-> risk_counts(juris),
             clause_types |-> clause_type_counts(juris),
             overall_risk |-> _calculate_overall_risk(all_counts(juris))]]

\* A plausible slip: the analyses of the failure path left out of the tally.
GenerateSummarySkipsUnknown(analyses, jurisdiction) ==
    LET jurisdictions == IF jurisdiction = "both" THEN {"us", "indian"} ELSE {jurisdiction}
        has(juris) == { i \in DOMAIN analyses :
                            /\ juris \in DOMAIN analyses[i]
                            /\ analyses[i][juris].clause_type # "Unknown" }
        risk_counts(juris) ==
            [level \in {"high", "medium", "low"} |->
                Cardinality({ i \in has(juris) : analyses[i][juris].risk_level = level })]
        clause_type_counts(juris) ==
            [t \in { analyses[i][juris].clause_type : i \in has(juris) } |->
                Cardinality({ i \in has(juris) : analyses[i][juris].clause_type = t })]
    IN  [juris \in { j \in jurisdictions : has(j) # {} } |->
            [risk_distribution |-> risk_counts(juris),
             clause_types |-> clause_type_counts(juris),
             overall_risk |-> _calculate_overall_risk(risk_counts(juris))]]

_generate_summary(analyses, jurisdiction) ==
    LET jurisdictions == IF jurisdiction = "both" THEN {"us", "indian"} ELSE {jurisdiction}
        has(juris) == { i \in DOMAIN analyses : juris \in DOMAIN analyses[i] }
        risk_counts(juris) ==
            [level \in {"high", "medium", "low"} |->
                Cardinality({ i \in has(juris) : analyses[i][juris].risk_level = level })]
        clause_type_counts(juris) ==
            [t \in { analyses[i][juris].clause_type : i \in has(juris) } |->
                Cardinality({ i \in has(juris) : analyses[i][juris].clause_type = t })]
    IN  [juris \in { j \in jurisdictions : has(j) # {} } |->
            [risk_distribution |-> risk_counts(juris),
             clause_types |-> clause_type_counts(juris),
             overall_risk |-> _calculate_overall_risk(risk_counts(juris))]]

----------------------------------------------------------------------------
(* ContractAnalysisService._generate_simple_comparison                      *)
(* (src/analysis_service.py), the comparison made without a client.  The    *)
(* text it builds is the sequence of its lines, each line a record of the   *)
(* values formatted into it.                                                *)

\* dict.get(key, default)
Get(dict, key, default) == IF key \in DOMAIN dict THEN dict[key] ELSE default

\* str.upper() of the risk words
Upper(risk) ==
    CASE risk = "low" -> "LOW"
      [] risk = "medium" -> "MEDIUM"
      [] risk = "high" -> "HIGH"
      [] risk = "unknown" -> "UNKNOWN"

\* list(labels)[:3]: the first three labels in the iteration order of sets
\* of strings, which the string hashes of the process fix
FirstThree(labels, order) ==
    LET listed == SelectSeq(order, LAMBDA label : label \in labels)
    IN  SubSeq(listed, 1, IF Len(listed) < 3 THEN Len(listed) ELSE 3)

\* A plausible slip: unique_indian computed as unique_us (line 228 copied
\* from line 227).
GenerateSimpleComparisonCopiedDifference(us_analysis, indian_analysis, order) ==
    LET us_risk == Get(us_analysis, "overall_risk", "unknown")
        indian_risk == Get(indian_analysis, "overall_risk", "unknown")
        us_clauses == DOMAIN Get(us_analysis, "clause_types", EmptyDict)
        indian_clauses == DOMAIN Get(indian_analysis, "clause_types", EmptyDict)
        unique_us == us_clauses \ indian_clauses
        unique_indian == us_clauses \ indian_clauses
        comparison ==
            << [line |-> "US Jurisdiction", risk |-> Upper(us_risk)],
               [line |-> "Indian Jurisdiction", risk |-> Upper(indian_risk)] >>
            \o (IF us_risk # indian_risk
                THEN << [line |-> "Risk levels differ", us |-> us_risk, indian |-> indian_risk],
                        [line |-> "This suggests jurisdiction-specific legal considerations"] >>
                ELSE << [line |-> "Both jurisdictions show similar", risk |-> us_risk],
                        [line |-> "Contract terms appear relatively consistent"] >>)
            \o (IF unique_us # {}
                THEN << [line |-> "US-specific considerations",
                         labels |-> FirstThree(unique_us, order)] >>
                ELSE << >>)
            \o (IF unique_indian # {}
                THEN << [line |-> "Indian-specific considerations",
                         labels |-> FirstThree(unique_indian, order)] >>
                ELSE << >>)
    IN  [detailed_comparison |-> comparison, generated_by |-> "Rule-based comparison"]

_generate_simple_comparison(us_analysis, indian_analysis, order) ==
    LET us_risk == Get(us_analysis, "overall_risk", "unknown")
        indian_risk == Get(indian_analysis, "overall_risk", "unknown")
        us_clauses == DOMAIN Get(us_analysis, "clause_types", EmptyDict)
        indian_clauses == DOMAIN Get(indian_analysis, "clause_types", EmptyDict)
        unique_us == us_clauses \ indian_clauses
        unique_indian == indian_clauses \ us_clauses
        comparison ==
            << [line |-> "US Jurisdiction", risk |-> Upper(us_risk)],
               [line |-> "Indian Jurisdiction", risk |-> Upper(indian_risk)] >>
            \o (IF us_risk # indian_risk
                THEN << [line |-> "Risk levels differ", us |-> us_risk, indian |-> indian_risk],
                        [line |-> "This suggests jurisdiction-specific legal considerations"] >>
                ELSE << [line |-> "Both jurisdictions show similar", risk |-> us_risk],
                        [line |-> "Contract terms appear relatively consistent"] >>)
            \o (IF unique_us # {}
                THEN << [line |-> "US-specific considerations",
                         labels |-> FirstThree(unique_us, order)] >>
                ELSE << >>)
            \o (IF unique_indian # {}
                THEN << [line |-> "Indian-specific considerations",
                         labels |-> FirstThree(unique_indian, order)] >>
                ELSE << >>)
    IN  [detailed_comparison |-> comparison, generated_by |-> "Rule-based comparison"]

----------------------------------------------------------------------------
(* generate_risk_assessment (src/analysis_service.py).  The assessment is   *)
(* one formatted text; it is kept as the values that the text is formatted  *)
(* from.                                                                    *)

\* str.upper() of the jurisdiction keys
UpperKey(jurisdiction) ==
    CASE jurisdiction = "us" -> "US"
      [] jurisdiction = "indian" -> "INDIAN"

_generate_simple_risk_assessment(analyses, jurisdiction) ==
    LET has == { i \in DOMAIN analyses : jurisdiction \in DOMAIN analyses[i] }
        risk_counts ==
            [level \in {"high", "medium", "low"} |->
                Cardinality({ i \in has : analyses[i][jurisdiction].risk_level = level })]
        flagged == SelectSeq(analyses, LAMBDA analysis :
                        /\ jurisdiction \in DOMAIN analysis
                        /\ analysis[jurisdiction].risk_level = "high")
        high_risk_list ==
            [i \in DOMAIN flagged |->
                [clause_id |-> flagged[i].clause_id,
                 type |-> flagged[i][jurisdiction].clause_type,
                 text |-> StrConcat(StrTake(flagged[i].text, 100), Ellipsis)]]
        total_clauses == risk_counts["high"] + risk_counts["medium"] + risk_counts["low"]
        overall_risk ==
            IF RatioGreater(risk_counts["high"], total_clauses, 3, 10) THEN "high"
            ELSE IF \/ risk_counts["high"] > 0
                    \/ RatioGreater(risk_counts["medium"], total_clauses, 5, 10)
                 THEN "medium"
            ELSE "low"
    IN  [detailed_assessment |->
            [jurisdiction |-> UpperKey(jurisdiction),
             overall_risk |-> Upper(overall_risk),
             risk_distribution |-> risk_counts,
             high_risk_clauses |->
                SubSeq(high_risk_list, 1,
                       IF Len(high_risk_list) < 3 THEN Len(high_risk_list) ELSE 3)],
         generated_by |-> "Rule-based analysis",
         jurisdiction |-> jurisdiction]

generate_risk_assessment(analyses, jurisdiction) ==
    _generate_simple_risk_assessment(analyses, jurisdiction)

----------------------------------------------------------------------------
(* The analyzer object and its callers.  A caller (src/app.py) invokes one  *)
(* method at a time; pc is "idle" between calls.                            *)

Self ==
    [us_tokenizer |-> us_tokenizer, us_model |-> us_model,
     indian_tokenizer |-> indian_tokenizer, indian_model |-> indian_model]

SetSelf(self) ==
    /\ us_tokenizer' = self.us_tokenizer
    /\ us_model' = self.us_model
    /\ indian_tokenizer' = self.indian_tokenizer
    /\ indian_model' = self.indian_model

\* the jurisdiction argument: the three registered selectors and one that is not
Selectors == {"us", "indian", "both", "uk"}

Letters == << "a", "b", "c", "d", "e", "f", "g", "h" >>

\* the k-th clause of the sample contracts: 50*k + 2 characters, so the
\* later ones are longer than the preview
ClauseText(k) ==
    << [ch |-> "A", n |-> 1], [ch |-> Letters[k], n |-> 50 * k], [ch |-> ".", n |-> 1] >>

\* the contract texts handed to analyze_contract: 0..MaxClauses paragraphs,
\* the k-th being ClauseText(k) and a blank line, and a text of spaces
RECURSIVE SampleContract(_)
SampleContract(n) ==
    IF n = 0 THEN << >>
    ELSE StrConcat(SampleContract(n - 1),
                   StrConcat(ClauseText(n), << [ch |-> "\n", n |-> 2] >>))

ContractTexts ==
    { SampleContract(n) : n \in 0..MaxClauses } \cup { << [ch |-> " ", n |-> 3] >> }

\* whether one invocation of the capability raised: the tokenizer call
\* (line 103) or the model call (line 113), None not being callable
Raises(model, tokenizer, outcome) ==
    \/ tokenizer = None
    \/ model = None
    \/ outcome.kind \in {"tokenizer_raises", "model_raises"}

\* the record of one classify_clause call: per jurisdiction, whether the
\* capability was invoked and whether it raised
Invocation(self, us_out, indian_out) ==
    [us |-> IF us_out = NotCalled THEN "not_called"
            ELSE IF Raises(self.us_model, self.us_tokenizer, us_out) THEN "raised"
            ELSE "ok",
     indian |-> IF indian_out = NotCalled THEN "not_called"
                ELSE IF Raises(self.indian_model, self.indian_tokenizer, indian_out) THEN "raised"
                ELSE "ok"]

\* what the capability may do for one jurisdiction of one classify_clause call
Invoked(jurisdiction, juris, outcomes) ==
    IF jurisdiction \in {juris, "both"} THEN outcomes ELSE {NotCalled}

\* __init__
Init ==
    /\ us_model = None /\ indian_model = None
    /\ us_tokenizer = None /\ indian_tokenizer = None
    /\ pc = "idle"
    /\ call = [op |-> "__init__"]
    /\ clauses = << >> /\ clause_analyses = << >> /\ invocations = << >>
    /\ ret = NoRet
    /\ session_state = [analysis_results |-> Unset] /\ analysis_results = Unset

\* a caller invokes a public method of the analyzer: load_models (the
\* application's "Load Models" button), classify_clause or analyze_contract
Invoke(method) ==
    /\ pc = "idle"
    /\ pc' = method
    /\ call' = [op |-> method]
    /\ ret' = NoRet
    /\ clauses' = << >>
    /\ clause_analyses' = << >>
    /\ invocations' = << >>
    /\ UNCHANGED models
    /\ UNCHANGED app

CallLoadModels == Invoke("load_models")

CallClassifyClause == Invoke("classify_clause")

CallAnalyzeContract == Invoke("analyze_contract")

\* load_models() runs: the primary loader completes, or raises after some
\* assignments and the fallback loader runs
LoadModels ==
    /\ pc = "load_models"
    /\ \E primary \in LoadOutcomes :
        \E fallback \in IF primary.raises THEN LoadOutcomes ELSE {primary} :
            LET r == load_models(Self, primary, fallback)
            IN  /\ SetSelf(r.self)
                /\ ret' = [op |-> "load_models", raised |-> r.raised]
    /\ pc' = "idle"
    /\ UNCHANGED <<call, clauses, clause_analyses, invocations>>
    /\ UNCHANGED app

\* classify_clause(text, jurisdiction) runs and returns
ClassifyClause ==
    /\ pc = "classify_clause"
    /\ \E text \in {ClauseText(1)}, jurisdiction \in Selectors :
        \E us_out \in Invoked(jurisdiction, "us", Outcomes(Len(us_clause_types))),
           indian_out \in Invoked(jurisdiction, "indian", Outcomes(Len(indian_clause_types))) :
            /\ call' = [op |-> "classify_clause", text |-> text, jurisdiction |-> jurisdiction]
            /\ ret' = [op |-> "classify_clause", raised |-> FALSE,
                       value |-> classify_clause(Self, text, jurisdiction, us_out, indian_out)]
            /\ invocations' = << Invocation(Self, us_out, indian_out) >>
    /\ pc' = "idle"
    /\ UNCHANGED <<models, clauses, clause_analyses>>
    /\ UNCHANGED app

\* analyze_contract(contract_text, jurisdiction), lines 195-199: load the
\* models when one is unset, then segment the text
AnalyzeContract ==
    /\ pc = "analyze_contract"
    /\ \E contract_text \in ContractTexts, jurisdiction \in Selectors :
        /\ call' = [op |-> "analyze_contract", contract_text |-> contract_text,
                    jurisdiction |-> jurisdiction]
        /\ IF us_model = None \/ indian_model = None
           THEN \E primary \in LoadOutcomes :
                \E fallback \in IF primary.raises THEN LoadOutcomes ELSE {primary} :
                    LET r == load_models(Self, primary, fallback)
                    IN  /\ SetSelf(r.self)
                        /\ IF r.raised
                           THEN /\ ret' = [op |-> "analyze_contract", raised |-> TRUE]
                                /\ pc' = "idle"
                                /\ UNCHANGED clauses
                           ELSE /\ ret' = NoRet
                                /\ pc' = "analyze_loop"
                                /\ clauses' = extract_clauses(contract_text)
           ELSE /\ UNCHANGED models
                /\ ret' = NoRet
                /\ pc' = "analyze_loop"
                /\ clauses' = extract_clauses(contract_text)
    /\ UNCHANGED <<clause_analyses, invocations>>
    /\ UNCHANGED app

\* A plausible slip: enumerate's index used as the clause id (line 205).
AnalyzeClauseZeroBased ==
    /\ pc = "analyze_loop"
    /\ Len(clause_analyses) < Len(clauses)
    /\ LET i == Len(clause_analyses)      \* enumerate's index, from 0
           clause == clauses[i + 1]
       IN  \E us_out \in Invoked(call.jurisdiction, "us", LoopOutcomes(Len(us_clause_types), call.jurisdiction)),
              indian_out \in Invoked(call.jurisdiction, "indian",
                                     LoopOutcomes(Len(indian_clause_types), call.jurisdiction)) :
            LET analysis == classify_clause(Self, clause, call.jurisdiction, us_out, indian_out)
                                @@ [clause_id |-> i, text |-> Preview(clause)]
            IN  /\ clause_analyses' = Append(clause_analyses, analysis)
                /\ invocations' = Append(invocations, Invocation(Self, us_out, indian_out))
    /\ UNCHANGED <<models, pc, call, clauses, ret>>
    /\ UNCHANGED app

\* analyze_contract, lines 203-207: one iteration of the loop
AnalyzeClause ==
    /\ pc = "analyze_loop"
    /\ Len(clause_analyses) < Len(clauses)
    /\ LET i == Len(clause_analyses)      \* enumerate's index, from 0
           clause == clauses[i + 1]
       IN  \E us_out \in Invoked(call.jurisdiction, "us", LoopOutcomes(Len(us_clause_types), call.jurisdiction)),
              indian_out \in Invoked(call.jurisdiction, "indian",
                                     LoopOutcomes(Len(indian_clause_types), call.jurisdiction)) :
            LET analysis == classify_clause(Self, clause, call.jurisdiction, us_out, indian_out)
                                @@ [clause_id |-> i + 1, text |-> Preview(clause)]
            IN  /\ clause_analyses' = Append(clause_analyses, analysis)
                /\ invocations' = Append(invocations, Invocation(Self, us_out, indian_out))
    /\ UNCHANGED <<models, pc, call, clauses, ret>>
    /\ UNCHANGED app

\* analyze_contract, lines 210-216: the summary and the return
AnalyzeReturn ==
    /\ pc = "analyze_loop"
    /\ Len(clause_analyses) = Len(clauses)
    /\ ret' = [op |-> "analyze_contract", raised |-> FALSE,
               value |-> [total_clauses |-> Len(clauses),
                          clause_analyses |-> clause_analyses,
                          summary |-> _generate_summary(clause_analyses, call.jurisdiction)]]
    /\ pc' = "idle"
    /\ UNCHANGED <<models, call, clauses, clause_analyses, invocations>>
    /\ UNCHANGED app

Next ==
    \/ CallLoadModels
    \/ CallClassifyClause
    \/ CallAnalyzeContract
    \/ LoadModels
    \/ ClassifyClause
    \/ AnalyzeContract
    \/ AnalyzeClause
    \/ AnalyzeReturn

Spec == Init /\ [][Next]_vars

----------------------------------------------------------------------------
(* The application (src/app.py): the Analyze Contract button, whose handler *)
(* analyze_contract runs step by step, and the result it stores for the     *)
(* tabs.  The analyzer's analyze_contract is one step of this caller.       *)

MaxAppClauses == 1      \* a contract of the application has 0..MaxAppClauses clauses

\* ContractBERTAnalyzer.analyze_contract as its caller sees it: the analyzer
\* it leaves, whether it raised, and the dict it returns; outcomes[i] is what
\* the capability does for the i-th clause
analyze_contract(self, contract_text, jurisdiction, primary, fallback, outcomes) ==
    LET loaded == IF self.us_model = None \/ self.indian_model = None
                  THEN load_models(self, primary, fallback)
                  ELSE [self |-> self, raised |-> FALSE]
        clauses_1 == extract_clauses(contract_text)
        analyses ==
            [i \in DOMAIN clauses_1 |->
                classify_clause(loaded.self, clauses_1[i], jurisdiction,
                                outcomes[i].us, outcomes[i].indian)
                    @@ [clause_id |-> i, text |-> Preview(clauses_1[i])]]
    IN  IF loaded.raised THEN [self |-> loaded.self, raised |-> TRUE]
        ELSE [self |-> loaded.self, raised |-> FALSE,
              value |-> [total_clauses |-> Len(clauses_1),
                         clause_analyses |-> analyses,
                         summary |-> _generate_summary(analyses, jurisdiction)]]

\* the answer of the Claude client to the comparison prompt: there is no
\* client, the call raises, or it returns a text
ClientOutcomes == { [kind |-> "no_client"], [kind |-> "raises"], [kind |-> "ok"] }

\* the iteration order of the label sets in the process
LabelOrder == indian_clause_types \o << "Unknown" >>

\* ContractAnalysisService.compare_jurisdictions
compare_jurisdictions(us_analysis, indian_analysis, response) ==
    IF response.kind = "no_client"
    THEN _generate_simple_comparison(us_analysis, indian_analysis, LabelOrder)
    ELSE IF response.kind = "raises"
    THEN _generate_simple_comparison(us_analysis, indian_analysis, LabelOrder)
    ELSE [detailed_comparison |-> << [line |-> "response.content[0].text"] >>,
          generated_by |-> "Claude"]

AppTexts == { SampleContract(n) : n \in 0..MaxAppClauses }

\* st.file_uploader: no file, a file whose text cannot be extracted, or a
\* file with a text (an empty one, or one of a single clause)
NoFile == [kind |-> "none"]

UploadedFiles ==
    { NoFile, [kind |-> "unreadable"] }
        \cup { [kind |-> "readable", text |-> SampleContract(n)] : n \in 0..1 }

\* lines 111-121: the button starts the handler on a file or on pasted text
AnalyzeButton ==
    /\ pc = "idle"
    /\ \E uploaded_file \in UploadedFiles, contract_text \in AppTexts,
          jurisdiction \in {"both", "us", "indian"},
          include_risk_assessment \in BOOLEAN, include_comparison \in BOOLEAN :
        /\ uploaded_file.kind # "none" \/ StrStrip(contract_text) # << >>
        /\ uploaded_file.kind # "none" => contract_text = << >>
        /\ call' = [op |-> "app.analyze_contract",
                    uploaded_file |-> uploaded_file,
                    contract_text |-> contract_text,
                    jurisdiction |-> jurisdiction,
                    include_risk_assessment |-> include_risk_assessment,
                    include_comparison |-> include_comparison]
    /\ pc' = "app.extract_text"
    /\ ret' = NoRet
    /\ analysis_results' = Unset
    /\ UNCHANGED <<models, clauses, clause_analyses, invocations, session_state>>

\* what the handler's except clause does (lines 173-174): st.error; the
\* handler returns and its local is gone
AnalysisFailed ==
    /\ ret' = [op |-> "app.analyze_contract", raised |-> TRUE]
    /\ pc' = "idle"
    /\ analysis_results' = Unset

\* lines 123-125
ExtractText ==
    /\ pc = "app.extract_text"
    /\ IF call.uploaded_file.kind = "none"
       THEN pc' = "app.analyze" /\ UNCHANGED <<call, ret, analysis_results>>
       ELSE IF call.uploaded_file.kind = "unreadable"
       THEN AnalysisFailed /\ UNCHANGED call
       ELSE /\ call' = [call EXCEPT !.contract_text = call.uploaded_file.text]
            /\ pc' = "app.analyze"
            /\ UNCHANGED <<ret, analysis_results>>
    /\ UNCHANGED <<models, clauses, clause_analyses, invocations, session_state>>

\* how the loaders end when analyze_contract runs them: they complete, or
\* raise at the first or after the last assignment; they do not run when both
\* models are set
AppLoadOutcomes(self) ==
    IF self.us_model = None \/ self.indian_model = None
    THEN { o \in LoadOutcomes : o.done \in {0, Len(LoadOrder)} }
    ELSE { [raises |-> FALSE, done |-> Len(LoadOrder)] }

\* what the capability does for each clause of the text
AppOutcomes(contract_text, jurisdiction) ==
    [DOMAIN extract_clauses(contract_text) ->
        { [us |-> u, indian |-> i] :
            u \in Invoked(jurisdiction, "us",
                          LoopOutcomes(Len(us_clause_types), jurisdiction)),
            i \in Invoked(jurisdiction, "indian",
                          LoopOutcomes(Len(indian_clause_types), jurisdiction)) }]

\* A plausible slip: the result stored as soon as the analyzer returns it.
AnalyzeStepStoresEarly ==
    /\ pc = "app.analyze"
    /\ \E primary \in AppLoadOutcomes(Self) :
       \E fallback \in IF primary.raises THEN AppLoadOutcomes(Self) ELSE {primary} :
       \E outcomes \in AppOutcomes(call.contract_text, call.jurisdiction) :
            LET r == analyze_contract(Self, call.contract_text, call.jurisdiction,
                                      primary, fallback, outcomes)
            IN  /\ SetSelf(r.self)
                /\ IF r.raised
                   THEN AnalysisFailed /\ UNCHANGED session_state
                   ELSE /\ analysis_results' = r.value
                        /\ session_state' = [session_state EXCEPT !.analysis_results = r.value]
                        /\ pc' = "app.risk_assessment"
                        /\ UNCHANGED ret
    /\ UNCHANGED <<call, clauses, clause_analyses, invocations>>

\* line 135
AnalyzeStep ==
    /\ pc = "app.analyze"
    /\ \E primary \in AppLoadOutcomes(Self) :
       \E fallback \in IF primary.raises THEN AppLoadOutcomes(Self) ELSE {primary} :
       \E outcomes \in AppOutcomes(call.contract_text, call.jurisdiction) :
            LET r == analyze_contract(Self, call.contract_text, call.jurisdiction,
                                      primary, fallback, outcomes)
            IN  /\ SetSelf(r.self)
                /\ IF r.raised
                   THEN AnalysisFailed
                   ELSE /\ analysis_results' = r.value
                        /\ pc' = "app.risk_assessment"
                        /\ UNCHANGED ret
    /\ UNCHANGED <<call, clauses, clause_analyses, invocations, session_state>>

\* lines 138-151
RiskAssessmentStep ==
    /\ pc = "app.risk_assessment"
    /\ IF call.include_risk_assessment
       THEN LET jurisdictions == IF call.jurisdiction = "both" THEN {"us", "indian"}
                                 ELSE {call.jurisdiction}
                risk_assessments ==
                    [juris \in jurisdictions \cap DOMAIN analysis_results.summary |->
                        generate_risk_assessment(analysis_results.clause_analyses, juris)]
            IN  analysis_results' =
                    [risk_assessments |-> risk_assessments] @@ analysis_results
       ELSE UNCHANGED analysis_results
    /\ pc' = "app.comparison"
    /\ UNCHANGED <<models, call, clauses, clause_analyses, invocations, ret, session_state>>

\* lines 154-162
ComparisonStep ==
    /\ pc = "app.comparison"
    /\ IF call.include_comparison /\ call.jurisdiction = "both"
       THEN \E response \in ClientOutcomes :
            LET us_summary == Get(analysis_results.summary, "us", EmptyDict)
                indian_summary == Get(analysis_results.summary, "indian", EmptyDict)
                comparison == compare_jurisdictions(us_summary, indian_summary, response)
            IN  analysis_results' = [comparison |-> comparison] @@ analysis_results
       ELSE UNCHANGED analysis_results
    /\ pc' = "app.store"
    /\ UNCHANGED <<models, call, clauses, clause_analyses, invocations, ret, session_state>>

\* line 168
StoreResults ==
    /\ pc = "app.store"
    /\ session_state' = [session_state EXCEPT !.analysis_results = analysis_results]
    /\ pc' = "app.display"
    /\ UNCHANGED <<models, call, clauses, clause_analyses, invocations, ret, analysis_results>>

\* line 171: display_analysis_results renders the result, or raises; the
\* handler returns and its local is gone
DisplayResults ==
    /\ pc = "app.display"
    /\ \E raises \in BOOLEAN : ret' = [op |-> "app.analyze_contract", raised |-> raises]
    /\ pc' = "idle"
    /\ analysis_results' = Unset
    /\ UNCHANGED <<models, call, clauses, clause_analyses, invocations, session_state>>

\* lines 308-315: what the dashboard tab shows
results_dashboard_tab == session_state.analysis_results

NextApp ==
    \/ AnalyzeButton
    \/ ExtractText
    \/ AnalyzeStep
    \/ RiskAssessmentStep
    \/ ComparisonStep
    \/ StoreResults
    \/ DisplayResults

SpecApp == Init /\ [][NextApp]_vars

----------------------------------------------------------------------------
(* The pure functions, applied to inputs drawn by Init *)

RiskCounts == [ {"high", "medium", "low"} -> 0..MaxCount ]

ClauseTypeInputs == Range(indian_clause_types) \cup {"Unknown"}

InitOverallRisk ==
    /\ us_model = None /\ indian_model = None
    /\ us_tokenizer = None /\ indian_tokenizer = None
    /\ pc = "_calculate_overall_risk"
    /\ call \in { [op |-> "_calculate_overall_risk", risk_counts |-> rc] : rc \in RiskCounts }
    /\ clauses = << >> /\ clause_analyses = << >> /\ invocations = << >>
    /\ ret = NoRet
    /\ session_state = [analysis_results |-> Unset] /\ analysis_results = Unset

CalculateOverallRisk ==
    /\ pc = "_calculate_overall_risk"
    /\ ret' = [op |-> call.op, raised |-> FALSE,
               value |-> _calculate_overall_risk(call.risk_counts)]
    /\ pc' = "idle"
    /\ UNCHANGED <<models, call, clauses, clause_analyses, invocations>>
    /\ UNCHANGED app

SpecOverallRisk == InitOverallRisk /\ [][CalculateOverallRisk]_vars

InitRiskLevel ==
    /\ us_model = None /\ indian_model = None
    /\ us_tokenizer = None /\ indian_tokenizer = None
    /\ pc = "_determine_risk_level"
    /\ call \in { [op |-> "_determine_risk_level", clause_type |-> ct, confidence |-> c] :
                    ct \in ClauseTypeInputs, c \in 0..Scale }
    /\ clauses = << >> /\ clause_analyses = << >> /\ invocations = << >>
    /\ ret = NoRet
    /\ session_state = [analysis_results |-> Unset] /\ analysis_results = Unset

DetermineRiskLevel ==
    /\ pc = "_determine_risk_level"
    /\ ret' = [op |-> call.op, raised |-> FALSE,
               value |-> _determine_risk_level(call.clause_type, call.confidence)]
    /\ pc' = "idle"
    /\ UNCHANGED <<models, call, clauses, clause_analyses, invocations>>
    /\ UNCHANGED app

SpecRiskLevel == InitRiskLevel /\ [][DetermineRiskLevel]_vars

\* The texts handed to extract_clauses: up to MaxUnits sentences, each closed
\* by a period and a space (the paragraph goes on) or by a period and a blank
\* line (the paragraph ends), and a few texts of other shapes.

Rep(ch, n) == << [ch |-> ch, n |-> n] >>

RECURSIVE Join(_)
Join(ss) == IF ss = << >> THEN << >> ELSE StrConcat(Head(ss), Join(Tail(ss)))

\* a sentence of 110 characters
LongSentence == StrConcat(Str(<< "A" >>), Rep("a", 109))

\* a sentence of exactly 50 characters
ShortSentence == StrConcat(Str(<< "B" >>), Rep("b", 49))

\* sentences of 110 characters that open with boilerplate words
WhereasSentence == StrConcat(Str(<< "W", "h", "e", "r", "e", "a", "s", " " >>), Rep("w", 102))

PartiesSentence ==
    StrConcat(Str(<< "T", "h", "e", " ", "P", "a", "r", "t", "i", "e", "s", " " >>), Rep("x", 98))

ExhibitSentence == StrConcat(Str(<< "E", "X", "H", "I", "B", "I", "T", " " >>), Rep("y", 102))

\* a sentence of 60 characters
MediumSentence == StrConcat(Str(<< "D" >>), Rep("d", 59))

\* 60 characters that do not open a sentence
Continuation == Rep("c", 60)

SentenceEnd == Str(<< ".", " " >>)

ParagraphEnd == StrConcat(Rep(".", 1), Rep("\n", 2))

Units ==
    << StrConcat(LongSentence, SentenceEnd), StrConcat(LongSentence, ParagraphEnd),
       StrConcat(WhereasSentence, SentenceEnd), StrConcat(WhereasSentence, ParagraphEnd),
       StrConcat(ShortSentence, SentenceEnd), StrConcat(Continuation, ParagraphEnd) >>

UnitTexts ==
    UNION { { Join([i \in 1..n |-> Units[f[i]]]) : f \in [1..n -> DOMAIN Units] } :
                n \in 0..MaxUnits }

\* n copies of a string
Copies(s, n) == Join([i \in 1..n |-> s])

OtherTexts ==
    { \* whitespace only
      Rep(" ", 3), Rep("\n", 2), Join(<< Rep(" ", 1), Rep("\n", 3), Rep(" ", 1) >>),
      \* a few words
      Str(<< "O", "k" >>), Str(<< " ", "O", "k", ".", "\n" >>),
      \* a numbering of 51 digits
      StrConcat(Rep("1", 51), Rep(".", 1)),
      StrConcat(Rep("1", 51), Rep(")", 1)),
      \* a numbering line and a sentence
      Join(<< Rep("7", 1), Rep(".", 1), Rep("\n", 1), LongSentence, Rep(".", 1) >>),
      \* one paragraph of eleven sentences of 50 characters
      Copies(StrConcat(ShortSentence, SentenceEnd), 11),
      \* one paragraph that is one sentence of 520 characters, unterminated
      StrConcat(Str(<< "C" >>), Rep("c", 519)),
      \* one paragraph of 110 characters, unterminated, after leading blank lines
      StrConcat(Rep("\n", 3), LongSentence),
      \* one paragraph of five long sentences and a boilerplate sentence
      Join(<< Copies(StrConcat(LongSentence, SentenceEnd), 5), WhereasSentence, Rep(".", 1) >>),
      Join(<< Copies(StrConcat(LongSentence, SentenceEnd), 4), PartiesSentence, SentenceEnd,
              LongSentence, Rep(".", 2) >>),
      \* one paragraph of five sentences of 60 characters
      Copies(StrConcat(MediumSentence, SentenceEnd), 5),
      \* one paragraph that opens with boilerplate words and goes on for five sentences
      Join(<< WhereasSentence, SentenceEnd, Copies(StrConcat(MediumSentence, SentenceEnd), 5) >>),
      \* paragraphs that open with boilerplate words
      StrConcat(PartiesSentence, Rep(".", 1)),
      StrConcat(ExhibitSentence, Rep(".", 1)),
      \* five paragraphs, sentences broken over lines
      Copies(Join(<< LongSentence, Rep(".", 1), Rep("\n", 1), ExhibitSentence, ParagraphEnd >>), 5),
      \* one paragraph that is one sentence of 520 characters and its period
      Join(<< Str(<< "C" >>), Rep("c", 519), Rep(".", 1) >>),
      \* one paragraph of exactly 500 characters
      Join(<< Str(<< "E" >>), Rep("e", 498), Rep(".", 1) >>),
      \* one paragraph of five long sentences with a sentence of 50 characters among them
      Join(<< Copies(StrConcat(LongSentence, SentenceEnd), 2), ShortSentence, SentenceEnd,
              Copies(StrConcat(LongSentence, SentenceEnd), 2), LongSentence, Rep(".", 1) >>) }

SegmentTexts == UnitTexts \cup OtherTexts

InitSegment ==
    /\ us_model = None /\ indian_model = None
    /\ us_tokenizer = None /\ indian_tokenizer = None
    /\ pc = "extract_clauses"
    /\ call \in { [op |-> "extract_clauses", contract_text |-> t] : t \in SegmentTexts }
    /\ clauses = << >> /\ clause_analyses = << >> /\ invocations = << >>
    /\ ret = NoRet
    /\ session_state = [analysis_results |-> Unset] /\ analysis_results = Unset

ExtractClauses ==
    /\ pc = "extract_clauses"
    /\ ret' = [op |-> call.op, raised |-> FALSE, value |-> extract_clauses(call.contract_text)]
    /\ pc' = "idle"
    /\ UNCHANGED <<models, call, clauses, clause_analyses, invocations>>
    /\ UNCHANGED app

\* one pass of the loop over paragraphs (lines 163-179), on every element
\* that the split on blank lines yields for the texts above
Paragraphs == UNION { Range(SplitBlankLines(t)) : t \in SegmentTexts }

InitParagraph ==
    /\ us_model = None /\ indian_model = None
    /\ us_tokenizer = None /\ indian_tokenizer = None
    /\ pc = "paragraph_pass"
    /\ call \in { [op |-> "paragraph_pass", paragraph |-> p] : p \in Paragraphs }
    /\ clauses = << >> /\ clause_analyses = << >> /\ invocations = << >>
    /\ ret = NoRet
    /\ session_state = [analysis_results |-> Unset] /\ analysis_results = Unset

AppendParagraphClauses ==
    /\ pc = "paragraph_pass"
    /\ ret' = [op |-> call.op, raised |-> FALSE, value |-> ParagraphClauses(call.paragraph)]
    /\ pc' = "idle"
    /\ UNCHANGED <<models, call, clauses, clause_analyses, invocations>>
    /\ UNCHANGED app

SpecParagraph == InitParagraph /\ [][AppendParagraphClauses]_vars

SpecSegment == InitSegment /\ [][ExtractClauses]_vars

\* The summaries handed to the comparison: the empty dict the application
\* passes for a jurisdiction without a summary (src/app.py, lines 159-160),
\* and summaries over the first MaxLabels labels (their risk_distribution,
\* which the comparison does not read, left out).
ComparisonLabels == SubSeq(indian_clause_types, 1, MaxLabels)

Reverse(seq) == [i \in DOMAIN seq |-> seq[Len(seq) + 1 - i]]

\* two iteration orders of the process
IterationOrders == { ComparisonLabels, Reverse(ComparisonLabels) }

Summaries ==
    { EmptyDict } \cup
    { [overall_risk |-> risk, clause_types |-> [label \in labels |-> 1]] :
        risk \in {"low", "medium", "high"}, labels \in SUBSET Range(ComparisonLabels) }

InitComparison ==
    /\ us_model = None /\ indian_model = None
    /\ us_tokenizer = None /\ indian_tokenizer = None
    /\ pc = "_generate_simple_comparison"
    /\ call \in { [op |-> "_generate_simple_comparison", us_analysis |-> a,
                   indian_analysis |-> b, order |-> order] :
                    a \in Summaries, b \in Summaries, order \in IterationOrders }
    /\ clauses = << >> /\ clause_analyses = << >> /\ invocations = << >>
    /\ ret = NoRet
    /\ session_state = [analysis_results |-> Unset] /\ analysis_results = Unset

GenerateSimpleComparison ==
    /\ pc = "_generate_simple_comparison"
    /\ ret' = [op |-> call.op, raised |-> FALSE,
               value |-> _generate_simple_comparison(call.us_analysis, call.indian_analysis,
                                                     call.order)]
    /\ pc' = "idle"
    /\ UNCHANGED <<models, call, clauses, clause_analyses, invocations>>
    /\ UNCHANGED app

SpecComparison == InitComparison /\ [][GenerateSimpleComparison]_vars

\* classify_clause with a fixed deterministic capability: what the capability
\* does for this clause under each jurisdiction is drawn with the inputs

FixedOutcomes(n) ==
    { TokenizerRaises, ModelRaises } \cup
    { [kind |-> "ok", predictions |-> Spread(k, c, n)] :
        k \in {1, 3, n}, c \in {6004, 7004, Scale} }

\* the analyzer as __init__ leaves it
Unloaded ==
    [us_tokenizer |-> None, us_model |-> None, indian_tokenizer |-> None, indian_model |-> None]

\* the analyzer after no load, after a primary load that stopped at any point
\* (the fallback then failing at once), and after a complete fallback load
LoadedSelves ==
    { Assigned(Unloaded, k, "primary") : k \in 0..Len(LoadOrder) }
        \cup { Assigned(Unloaded, Len(LoadOrder), "fallback") }

InitClassify ==
    /\ \E self \in LoadedSelves :
        /\ us_tokenizer = self.us_tokenizer /\ us_model = self.us_model
        /\ indian_tokenizer = self.indian_tokenizer /\ indian_model = self.indian_model
    /\ pc = "classify_clause"
    /\ call \in { [op |-> "classify_clause", text |-> ClauseText(1), jurisdiction |-> j,
                   us_out |-> u, indian_out |-> i] :
                    j \in {"us", "indian", "both"},
                    u \in FixedOutcomes(Len(us_clause_types)),
                    i \in FixedOutcomes(Len(indian_clause_types)) }
    /\ clauses = << >> /\ clause_analyses = << >> /\ invocations = << >>
    /\ ret = NoRet
    /\ session_state = [analysis_results |-> Unset] /\ analysis_results = Unset

ClassifyClauseFixed ==
    /\ pc = "classify_clause"
    /\ LET us_out == IF call.jurisdiction \in {"us", "both"} THEN call.us_out ELSE NotCalled
           indian_out == IF call.jurisdiction \in {"indian", "both"} THEN call.indian_out
                         ELSE NotCalled
       IN  /\ ret' = [op |-> call.op, raised |-> FALSE,
                      value |-> classify_clause(Self, call.text, call.jurisdiction,
                                                us_out, indian_out)]
           /\ invocations' = << Invocation(Self, us_out, indian_out) >>
    /\ pc' = "idle"
    /\ UNCHANGED <<models, call, clauses, clause_analyses>>
    /\ UNCHANGED app

SpecClassify == InitClassify /\ [][ClassifyClauseFixed]_vars

\* the preview of a clause (line 206), on clauses of every length up to
\* MaxClauseChars that end in zero to three periods
MaxClauseChars == 260

Chars(ch, n) == IF n = 0 THEN << >> ELSE Rep(ch, n)

PreviewClauses ==
    { StrConcat(Chars("a", n), Chars(".", m)) : n \in 0..MaxClauseChars, m \in 0..3 }

InitPreview ==
    /\ us_model = None /\ indian_model = None
    /\ us_tokenizer = None /\ indian_tokenizer = None
    /\ pc = "preview"
    /\ call \in { [op |-> "preview", clause |-> c] : c \in PreviewClauses }
    /\ clauses = << >> /\ clause_analyses = << >> /\ invocations = << >>
    /\ ret = NoRet
    /\ session_state = [analysis_results |-> Unset] /\ analysis_results = Unset

PreviewClause ==
    /\ pc = "preview"
    /\ ret' = [op |-> call.op, raised |-> FALSE, value |-> Preview(call.clause)]
    /\ pc' = "idle"
    /\ UNCHANGED <<models, call, clauses, clause_analyses, invocations>>
    /\ UNCHANGED app

SpecPreview == InitPreview /\ [][PreviewClause]_vars

\* The risk assessments of one run of the application (src/app.py, lines
\* 135-151) next to the summary of the same clause analyses.  The analyses
\* are given by their numbers of high, medium and low results: the high ones
\* first, labelled Liability, then the medium ones, Payment, then the low
\* ones, Term.
AnalysesOf(risk_counts, jurisdiction) ==
    LET high == risk_counts["high"]
        medium == risk_counts["medium"]
        total == high + medium + risk_counts["low"]
        result(i) ==
            IF i <= high
            THEN [clause_type |-> "Liability", confidence |-> 9000, risk_level |-> "high"]
            ELSE IF i <= high + medium
            THEN [clause_type |-> "Payment", confidence |-> 9000, risk_level |-> "medium"]
            ELSE [clause_type |-> "Term", confidence |-> 9000, risk_level |-> "low"]
    IN  [i \in 1..total |->
            [juris \in (IF jurisdiction = "both" THEN {"us", "indian"} ELSE {jurisdiction})
                |-> result(i)]
                @@ [clause_id |-> i, text |-> ClauseText(1)]]

InitRiskAssessment ==
    /\ us_model = None /\ indian_model = None
    /\ us_tokenizer = None /\ indian_tokenizer = None
    /\ pc = "generate_risk_assessment"
    /\ call \in { [op |-> "generate_risk_assessment", risk_counts |-> rc, jurisdiction |-> j] :
                    rc \in RiskCounts, j \in {"us", "indian", "both"} }
    /\ clauses = << >> /\ clause_analyses = << >> /\ invocations = << >>
    /\ ret = NoRet
    /\ session_state = [analysis_results |-> Unset] /\ analysis_results = Unset

GenerateRiskAssessments ==
    /\ pc = "generate_risk_assessment"
    /\ LET analyses == AnalysesOf(call.risk_counts, call.jurisdiction)
           summary == _generate_summary(analyses, call.jurisdiction)
           jurisdictions == IF call.jurisdiction = "both" THEN {"us", "indian"}
                            ELSE {call.jurisdiction}
           risk_assessments ==
                [juris \in jurisdictions \cap DOMAIN summary |->
                    generate_risk_assessment(analyses, juris)]
       IN  /\ clause_analyses' = analyses
           /\ ret' = [op |-> call.op, raised |-> FALSE,
                      value |-> [summary |-> summary, risk_assessments |-> risk_assessments]]
    /\ pc' = "idle"
    /\ UNCHANGED <<models, call, clauses, invocations>>
    /\ UNCHANGED app

SpecRiskAssessment == InitRiskAssessment /\ [][GenerateRiskAssessments]_vars

----------------------------------------------------------------------------
(* Claims about _calculate_overall_risk *)

Returned(op) == pc = "idle" /\ ret.op = op /\ ~ret.raised

Tier == [low |-> 0, medium |-> 1, high |-> 2]

\* The overall tier as the claim words it, on exact ratios n/d.
ClaimedOverall(high, medium, low) ==
    LET total == high + medium + low
    IN  IF total = 0 THEN "low"
        ELSE IF 10 * high > 3 * total THEN "high"
        ELSE IF 10 * high > total \/ 2 * medium > total THEN "medium"
        ELSE "low"

Counts(h, m, l) == [high |-> h, medium |-> m, low |-> l]

\* C1: _calculate_overall_risk returns low for total 0, else high when
\* high/total > 0.3, else medium when high/total > 0.1 or medium/total > 0.5,
\* else low; all comparisons strict, checked in this order; the five named
\* examples come out as stated.
C1_OverallRiskRule ==
    Returned("_calculate_overall_risk") =>
        LET rc == call.risk_counts
        IN  /\ ret.value = ClaimedOverall(rc["high"], rc["medium"], rc["low"])
            /\ rc = Counts(4, 2, 4) => ret.value = "high"
            /\ rc = Counts(0, 6, 4) => ret.value = "medium"
            /\ rc = Counts(0, 0, 0) => ret.value = "low"
            /\ rc = Counts(3, 0, 7) => ret.value = "medium"
            /\ rc = Counts(1, 5, 4) => ret.value = "low"

\* C1 witness: the boundary input {3,0,7} (high ratio exactly 0.3) was evaluated.
C1_Witness ==
    /\ Returned("_calculate_overall_risk")
    /\ call.risk_counts = Counts(3, 0, 7)
    /\ ret.value = "medium"

\* C2 (as claimed): one more high-risk clause never lowers the overall tier.
C2_MonotonicInHigh ==
    Returned("_calculate_overall_risk") =>
        LET rc == call.risk_counts
            more == [rc EXCEPT !["high"] = @ + 1]
        IN  Tier[_calculate_overall_risk(more)] >= Tier[ret.value]

----------------------------------------------------------------------------
(* Claims about _determine_risk_level *)

\* C3: for a high-bucket label the tier is high iff confidence > 0.7, medium
\* otherwise (0.7 itself gives medium), and never low.
C3_HighBucket ==
    (Returned("_determine_risk_level")
        /\ call.clause_type \in {"Liability", "Indemnification", "Termination", "Governing Law"})
    => /\ (ret.value = "high") <=> (call.confidence > 7000)
       /\ (ret.value = "medium") <=> (call.confidence <= 7000)
       /\ ret.value # "low"

\* C3 witness: a high-bucket label at exactly 0.7 came out medium.
C3_Witness ==
    /\ Returned("_determine_risk_level")
    /\ call.clause_type = "Governing Law" /\ call.confidence = 7000
    /\ ret.value = "medium"

\* C4: for a medium-bucket label the tier is medium iff confidence > 0.6, low
\* otherwise (0.6 itself gives low), and never high.
C4_MediumBucket ==
    (Returned("_determine_risk_level")
        /\ call.clause_type \in {"Payment", "Intellectual Property", "Confidentiality"})
    => /\ (ret.value = "medium") <=> (call.confidence > 6000)
       /\ (ret.value = "low") <=> (call.confidence <= 6000)
       /\ ret.value # "high"

\* C4 witness: a medium-bucket label at exactly 0.6 came out low.
C4_Witness ==
    /\ Returned("_determine_risk_level")
    /\ call.clause_type = "Confidentiality" /\ call.confidence = 6000
    /\ ret.value = "low"

----------------------------------------------------------------------------
(* Claims about classification results *)

Registered == {"us", "indian"}

Taxonomy(juris) == IF juris = "us" THEN us_clause_types ELSE indian_clause_types

\* the labels outside both buckets, as the claim lists them
OtherLabels ==
    { "Dispute Resolution", "Force Majeure", "Warranties", "Deliverables", "Term",
      "Compliance", "Registration", "Stamp Duty" }

\* the entries (clause analyses) the running or returned call has produced
Entries ==
    IF pc = "idle" /\ ret.op = "classify_clause"
    THEN << ret.value >>
    ELSE IF call.op = "analyze_contract" THEN clause_analyses
    ELSE << >>

\* every ClassificationResult produced so far by the current call, with the
\* entry it belongs to and its jurisdiction
Produced ==
    { [i |-> i, juris |-> j] :
        i \in DOMAIN Entries, j \in Registered } 

Has(x) == x.juris \in DOMAIN Entries[x.i]

Result(x) == Entries[x.i][x.juris]

\* the shape the failure path returns
Degenerate(r) ==
    /\ r.clause_type = "Unknown"
    /\ r.confidence = 0
    /\ r.risk_level = "medium"
    /\ "error" \in DOMAIN r

\* C5 (as claimed): every result whose label is outside the buckets, the
\* sentinel Unknown included, has risk tier low.
C5_OtherLabelsLow ==
    \A x \in Produced :
        (Has(x) /\ Result(x).clause_type \in OtherLabels \cup {"Unknown"})
            => Result(x).risk_level = "low"

\* C5 (amended): every result whose label is a taxonomy label outside the
\* buckets has risk tier low whatever its confidence; a result labelled
\* Unknown is the failure path's and has risk tier medium.
C5_OtherLabelsLowUnknownMedium ==
    \A x \in Produced :
        Has(x) =>
            /\ Result(x).clause_type \in OtherLabels => Result(x).risk_level = "low"
            /\ Result(x).clause_type = "Unknown" => Degenerate(Result(x))

\* C5 witness: one clause whose indian result is a certain (confidence 1.0)
\* Stamp Duty with tier low and whose us result is Unknown with tier medium.
C5_Witness ==
    \E i \in DOMAIN Entries :
        /\ {"us", "indian"} \subseteq DOMAIN Entries[i]
        /\ Entries[i]["indian"].clause_type = "Stamp Duty"
        /\ Entries[i]["indian"].confidence = Scale
        /\ Entries[i]["indian"].risk_level = "low"
        /\ Entries[i]["us"].clause_type = "Unknown"
        /\ Entries[i]["us"].risk_level = "medium"

\* C5, the rule itself: _determine_risk_level maps every label outside the
\* buckets, Unknown included, to low at every confidence.
C5_RuleLow ==
    (Returned("_determine_risk_level") /\ call.clause_type \in OtherLabels \cup {"Unknown"})
        => ret.value = "low"

\* C6: a raising capability is not propagated: that clause's result for that
\* jurisdiction is Unknown / 0.0 / medium with an error description, every
\* other result is a successful one, and analyze_contract returns one entry
\* per segmented clause; so k failures among n clauses give n entries of
\* which exactly k are degenerate.
C6_FailureDegrades ==
    /\ Len(Entries) = Len(invocations)
    /\ \A x \in Produced :
        /\ Has(x) <=> invocations[x.i][x.juris] # "not_called"
        /\ invocations[x.i][x.juris] = "raised" => Degenerate(Result(x))
        /\ invocations[x.i][x.juris] = "ok" =>
                /\ Result(x).clause_type # "Unknown"
                /\ "error" \notin DOMAIN Result(x)
    /\ (pc = "idle" /\ ret.op = "analyze_contract" /\ ~ret.raised) =>
        /\ Len(ret.value.clause_analyses) = Len(clauses)
        /\ ret.value.total_clauses = Len(clauses)
        /\ \A juris \in Registered :
            Cardinality({ i \in DOMAIN invocations : invocations[i][juris] = "raised" })
                = Cardinality({ i \in DOMAIN ret.value.clause_analyses :
                                    /\ juris \in DOMAIN ret.value.clause_analyses[i]
                                    /\ Degenerate(ret.value.clause_analyses[i][juris]) })
    /\ (pc = "idle" /\ ret.op = "analyze_contract" /\ ret.raised) => invocations = << >>

\* C6 witness (Scenario 5): the capability raised for one clause among five
\* and the result has five entries, exactly one of them degenerate.
C6_Witness ==
    /\ pc = "idle" /\ ret.op = "analyze_contract" /\ ~ret.raised
    /\ call.jurisdiction = "us"
    /\ Len(clauses) = 5
    /\ Len(ret.value.clause_analyses) = 5
    /\ Cardinality({ i \in DOMAIN invocations : invocations[i]["us"] = "raised" }) = 1
    /\ Cardinality({ i \in 1..5 : Degenerate(ret.value.clause_analyses[i]["us"]) }) = 1

\* C7 (as claimed): with a registered selector analyze_contract never raises,
\* whether or not the models can be loaded.
C7_UnavailableModelNeverFails ==
    (pc = "idle" /\ ret.op = "analyze_contract" /\ call.jurisdiction \in {"us", "indian", "both"})
        => ~ret.raised

\* C8 (as claimed): a call with an unregistered selector fails; it returns
\* no result.
C8_UnknownJurisdictionFails ==
    (pc = "idle" /\ ret.op \in {"analyze_contract", "classify_clause"}
        /\ call.jurisdiction \notin {"us", "indian", "both"})
        => ret.raised

\* sum of the values of a function over labels
RECURSIVE SumOver(_, _)
SumOver(f, S) ==
    IF S = {} THEN 0
    ELSE LET l == CHOOSE l \in S : TRUE IN f[l] + SumOver(f, S \ {l})

Abs(n) == IF n < 0 THEN -n ELSE n

\* a distribution over the jurisdiction's taxonomy that sums to 1 within
\* the rounding of its values (0.0005 per label), and the confidence is its
\* value at the reported label
CarriesDistribution(r, juris) ==
    /\ "all_scores" \in DOMAIN r
    /\ DOMAIN r.all_scores = Range(Taxonomy(juris))
    /\ 2 * Abs(SumOver(r.all_scores, DOMAIN r.all_scores) - Scale)
            <= Len(Taxonomy(juris)) * (Scale \div Milli)
    /\ r.clause_type \in DOMAIN r.all_scores
    /\ r.confidence = r.all_scores[r.clause_type]

C10_LabelInTaxonomy ==
    /\ Cardinality(Range(Taxonomy("us"))) = 12
    /\ Cardinality(Range(Taxonomy("indian"))) = 15
    /\ \A x \in Produced :
        Has(x) =>
            LET r == Result(x) IN
            /\ r.clause_type \in Range(Taxonomy(x.juris)) \cup {"Unknown"}
            /\ r.clause_type = "Unknown" => invocations[x.i][x.juris] = "raised"
            /\ x.juris = "us" => r.clause_type \notin {"Compliance", "Registration", "Stamp Duty"}
            /\ r.confidence >= 0 /\ r.confidence <= Scale

\* C10 witness: one clause classified under both jurisdictions, the us
\* result labelled Term (the last us label) and the indian one Stamp Duty.
C10_Witness ==
    \E i \in DOMAIN Entries :
        /\ {"us", "indian"} \subseteq DOMAIN Entries[i]
        /\ Entries[i]["us"].clause_type = "Term"
        /\ Entries[i]["indian"].clause_type = "Stamp Duty"

----------------------------------------------------------------------------
(* Claims about extract_clauses *)

\* the text has no character but whitespace
IsBlank(text) == \A i \in DOMAIN text : text[i].ch \in WhiteSpace

\* C11, as stated: extract_clauses returns no clause only when the text is
\* empty or whitespace; a text with a non-whitespace character yields a clause.
C11_EmptyOnlyForBlank ==
    Returned("extract_clauses") /\ ret.value = << >> => IsBlank(call.contract_text)

\* the text has a blank-line-delimited paragraph of more than 50 characters
\* after trimming
HasLongParagraph(text) ==
    LET paragraphs == SplitBlankLines(text)
    IN  \E i \in DOMAIN paragraphs : StrLen(StrStrip(paragraphs[i])) > MinClauseLen

\* C12, as stated: a text with a paragraph whose trimmed length exceeds 50
\* yields at least one clause, whatever the paragraph's leading words and
\* sentence sizes.
C12_LongParagraphYieldsClause ==
    Returned("extract_clauses") /\ HasLongParagraph(call.contract_text) => ret.value # << >>

\* the units of the whole text between sentence boundaries, trimmed, newlines
\* turned to spaces
SentenceUnits(text) ==
    LET units == SplitSentences(text)
    IN  [i \in DOMAIN units |-> StrReplace(StrStrip(units[i]), "\n", " ")]

\* a unit the fallback keeps
Qualifies(unit) ==
    /\ StrLen(unit) > 50
    /\ \A prefix \in { Str(<< "w", "h", "e", "r", "e", "a", "s" >>),
                       Str(<< "t", "h", "i", "s", " ", "a", "g", "r", "e", "e", "m", "e", "n", "t" >>),
                       Str(<< "t", "h", "e", " ", "p", "a", "r", "t", "i", "e", "s" >>) } :
            StrTake(StrLower(unit), StrLen(prefix)) # prefix

\* the qualifying units in order, each with its closing period
RECURSIVE QualifyingUnits(_)
QualifyingUnits(units) ==
    IF units = << >> THEN << >>
    ELSE (IF Qualifies(Head(units)) THEN << Terminated(Head(units)) >> ELSE << >>)
            \o QualifyingUnits(Tail(units))

\* the text is one paragraph: it has no blank line
SingleParagraph(text) == Len(SplitBlankLines(text)) = 1

\* the paragraph pass of a one-paragraph text kept neither the paragraph nor
\* five of its sentences: the paragraph has at most 500 characters or the
\* paragraph filter rejects it
FallsBack(text) ==
    LET paragraph == StrReplace(StrStrip(text), "\n", " ")
    IN  \/ StrLen(paragraph) <= 500
        \/ StartsWithAny(paragraph, paragraph_prefixes)
        \/ MatchesNumbering(paragraph)

\* the two branches of C13: fewer than 5 paragraph-pass clauses give the
\* qualifying sentence units of the whole text, 5 or more give the
\* paragraph-pass clauses
C13_Branches ==
    LET text == call.contract_text
    IN  /\ Len(ParagraphPass(text)) < 5 => ret.value = QualifyingUnits(SentenceUnits(text))
        /\ Len(ParagraphPass(text)) >= 5 => ret.value = ParagraphPass(text)

----------------------------------------------------------------------------
(* Claims about analyze_contract and _generate_summary *)

\* the jurisdictions a registered selector requests
Requested(jurisdiction) == IF jurisdiction = "both" THEN {"us", "indian"} ELSE {jurisdiction}

\* C15: for a selector among us / indian / both and a text that segments
\* into at least one clause, every entry of the returned result carries a
\* result for exactly the requested jurisdictions and the summary has exactly
\* those keys, also when classifications failed.
C15_RequestedJurisdictionsComplete ==
    ( /\ Returned("analyze_contract")
      /\ call.jurisdiction \in {"us", "indian", "both"}
      /\ clauses # << >> )
        => /\ ret.value.clause_analyses # << >>
           /\ \A i \in DOMAIN ret.value.clause_analyses :
                DOMAIN ret.value.clause_analyses[i] \cap Registered = Requested(call.jurisdiction)
           /\ DOMAIN ret.value.summary = Requested(call.jurisdiction)

\* both jurisdictions were requested for several clauses and the capability
\* failed for one jurisdiction on one clause and for the other on another
C15_Witness ==
    /\ Returned("analyze_contract")
    /\ call.jurisdiction = "both"
    /\ Len(ret.value.clause_analyses) >= 2
    /\ \E i, j \in DOMAIN invocations :
        /\ invocations[i].us = "raised" /\ invocations[i].indian = "ok"
        /\ invocations[j].us = "ok" /\ invocations[j].indian = "raised"
    /\ DOMAIN ret.value.summary = {"us", "indian"}

\* C16, result: a call of analyze_contract on an empty or whitespace-only
\* text that returns, returns total_clauses = 0, no clause analyses and an
\* empty summary, for each of the selectors us / indian / both.
C16_BlankTextResult ==
    ( /\ Returned("analyze_contract")
      /\ IsBlank(call.contract_text)
      /\ call.jurisdiction \in {"us", "indian", "both"} )
        => ret.value = [total_clauses |-> 0, clause_analyses |-> << >>, summary |-> EmptyDict]

\* C16, no raise: with the models set the call on such a text goes on to the
\* loop with no clause, a call that ends before the loop had a model unset
\* and load_models raised, and the loop without clauses returns
C16_BlankTextStep ==
    /\ ( /\ pc = "analyze_contract"
         /\ IsBlank(call'.contract_text)
         /\ us_model # None /\ indian_model # None )
            => pc' = "analyze_loop" /\ clauses' = << >>
    /\ ( pc = "analyze_contract" /\ IsBlank(call'.contract_text) /\ pc' # "analyze_loop" )
            => /\ us_model = None \/ indian_model = None
               /\ ret'.raised
    /\ ( pc = "analyze_loop" /\ clauses = << >> ) => pc' = "idle" /\ ~ret'.raised

\* C16: for empty or whitespace-only text and loadable models, analyze_contract
\* does not raise and returns total_clauses = 0, an empty clause_analyses and
\* an empty summary, for every selector among us / indian / both.
C16_BlankTextEmptyResult == [](C16_BlankTextResult) /\ [][C16_BlankTextStep]_vars

\* a text of spaces was analyzed under both jurisdictions and the call returned
C16_Witness ==
    /\ Returned("analyze_contract")
    /\ call.contract_text # << >> /\ IsBlank(call.contract_text)
    /\ call.jurisdiction = "both"
    /\ ret.value.total_clauses = 0

\* the number of analyses whose result for juris has the value in the field
RECURSIVE CountField(_, _, _, _)
CountField(analyses, juris, field, value) ==
    IF analyses = << >> THEN 0
    ELSE (IF juris \in DOMAIN Head(analyses) /\ Head(analyses)[juris][field] = value
          THEN 1 ELSE 0)
            + CountField(Tail(analyses), juris, field, value)

\* C17: in every jurisdiction summary, risk_distribution has exactly the keys
\* high, medium, low, each the number of analyses with that risk level for
\* the jurisdiction; clause_types has exactly the observed labels, each with
\* its number of occurrences; overall_risk is _calculate_overall_risk of the
\* risk_distribution.
C17_SummaryCounts ==
    Returned("analyze_contract") =>
        \A juris \in DOMAIN ret.value.summary :
            LET summary == ret.value.summary[juris]
                analyses == ret.value.clause_analyses
                observed == { analyses[i][juris].clause_type :
                                i \in { k \in DOMAIN analyses : juris \in DOMAIN analyses[k] } }
            IN  /\ DOMAIN summary.risk_distribution = {"high", "medium", "low"}
                /\ \A level \in {"high", "medium", "low"} :
                    summary.risk_distribution[level] =
                        CountField(analyses, juris, "risk_level", level)
                /\ DOMAIN summary.clause_types = observed
                /\ \A t \in observed :
                    /\ summary.clause_types[t] >= 1
                    /\ summary.clause_types[t] =
                        CountField(analyses, juris, "clause_type", t)
                /\ summary.overall_risk = _calculate_overall_risk(summary.risk_distribution)

\* a summary with a level that no clause has and a label that occurs twice
C17_Witness ==
    /\ Returned("analyze_contract")
    /\ "us" \in DOMAIN ret.value.summary
    /\ ret.value.summary["us"].risk_distribution["low"] = 0
    /\ ret.value.summary["us"].risk_distribution["high"] >= 1
    /\ ret.value.summary["us"].risk_distribution["medium"] >= 1
    /\ \E t \in DOMAIN ret.value.summary["us"].clause_types :
        ret.value.summary["us"].clause_types[t] >= 2

\* C20: in every result of analyze_contract the k-th entry (k from 0) has
\* clause_id k+1 and describes the k-th clause of extract_clauses (clauses
\* holds what extract_clauses returned, line 199), the ids are exactly 1..n,
\* and total_clauses = n = the number of entries.
C20_ClauseOrdinals ==
    Returned("analyze_contract") =>
        LET analyses == ret.value.clause_analyses
            n == Len(clauses)
        IN  /\ ret.value.total_clauses = n
            /\ Len(analyses) = n
            /\ \A k \in 0..(n - 1) :
                /\ analyses[k + 1].clause_id = k + 1
                /\ analyses[k + 1].text = Preview(clauses[k + 1])
            /\ { analyses[i].clause_id : i \in DOMAIN analyses } = 1..n

\* a contract of at least four clauses, the last longer than its preview
C20_Witness ==
    /\ Returned("analyze_contract")
    /\ ret.value.total_clauses >= 4
    /\ ret.value.clause_analyses[4].clause_id = 4
    /\ clauses = extract_clauses(call.contract_text)
    /\ ret.value.clause_analyses[4].text # clauses[4]

----------------------------------------------------------------------------
(* Claims about the rule-based comparison *)

\* the labels a comparison lists on the line of the given jurisdiction
Reported(comparison, jurisdiction) ==
    UNION { Range(comparison.detailed_comparison[i].labels) :
                i \in { k \in DOMAIN comparison.detailed_comparison :
                            comparison.detailed_comparison[k].line = jurisdiction } }

\* the verdict of a comparison on the overall risks
Differ(comparison) ==
    \E i \in DOMAIN comparison.detailed_comparison :
        comparison.detailed_comparison[i].line = "Risk levels differ"

Labels(summary) == DOMAIN Get(summary, "clause_types", EmptyDict)

\* the verdicts of compare(A,B) and compare(B,A) agree and say "differ"
\* exactly when the overall risks differ
C18_VerdictSymmetric ==
    LET a == call.us_analysis
        b == call.indian_analysis
        swapped == _generate_simple_comparison(b, a, call.order)
    IN  /\ Differ(ret.value) = Differ(swapped)
        /\ Differ(ret.value) <=> Get(a, "overall_risk", "unknown") # Get(b, "overall_risk", "unknown")

\* the labels compare(A,B) reports for its first argument are those
\* compare(B,A) reports for its second, and vice versa
C18_ReportedSymmetric ==
    LET swapped == _generate_simple_comparison(call.indian_analysis, call.us_analysis, call.order)
    IN  /\ Reported(ret.value, "US-specific considerations")
            = Reported(swapped, "Indian-specific considerations")
        /\ Reported(ret.value, "Indian-specific considerations")
            = Reported(swapped, "US-specific considerations")

UpToThreeOf(reported, labels) ==
    /\ reported \subseteq labels
    /\ Cardinality(reported) = IF Cardinality(labels) < 3 THEN Cardinality(labels) ELSE 3

----------------------------------------------------------------------------
(* Claims about the independence of the jurisdictions *)

\* C19: with a fixed deterministic capability, the us result of a clause
\* classified under "both" is the us result of the same clause classified
\* under "us", likewise for indian; it is the same whatever the capability
\* does under the other jurisdiction, and a failure under one jurisdiction
\* does not degrade the other's result to Unknown.
C19_JurisdictionsIndependent ==
    ( Returned("classify_clause") /\ call.jurisdiction = "both" ) =>
        /\ ret.value["us"]
            = classify_clause(Self, call.text, "us", call.us_out, NotCalled)["us"]
        /\ ret.value["indian"]
            = classify_clause(Self, call.text, "indian", NotCalled, call.indian_out)["indian"]
        /\ \A other \in FixedOutcomes(Len(indian_clause_types)) :
            classify_clause(Self, call.text, "both", call.us_out, other)["us"] = ret.value["us"]
        /\ \A other \in FixedOutcomes(Len(us_clause_types)) :
            classify_clause(Self, call.text, "both", other, call.indian_out)["indian"]
                = ret.value["indian"]
        /\ (invocations[1].us = "ok" /\ invocations[1].indian = "raised")
            => ret.value["us"].clause_type \in Range(us_clause_types)
        /\ (invocations[1].indian = "ok" /\ invocations[1].us = "raised")
            => ret.value["indian"].clause_type \in Range(indian_clause_types)

\* a clause classified under both jurisdictions: the capability raised under
\* us and answered under indian
C19_Witness ==
    /\ Returned("classify_clause") /\ call.jurisdiction = "both"
    /\ invocations[1].us = "raised" /\ invocations[1].indian = "ok"
    /\ us_model # None
    /\ Degenerate(ret.value["us"])
    /\ ret.value["indian"].clause_type \in Range(indian_clause_types)

----------------------------------------------------------------------------
(* Claims about the taxonomies and the risk buckets *)

\* C22: us has 12 pairwise distinct labels; indian has 15 pairwise distinct
\* labels, the same 12 in the same order followed by Compliance, Registration
\* and Stamp Duty; the high and the medium bucket are disjoint and every
\* bucket label is in both taxonomies, so that a label of the medium bucket
\* is never rated by the rule of the high bucket.
C22_Taxonomies ==
    /\ Len(us_clause_types) = 12 /\ Cardinality(Range(us_clause_types)) = 12
    /\ Len(indian_clause_types) = 15 /\ Cardinality(Range(indian_clause_types)) = 15
    /\ SubSeq(indian_clause_types, 1, 12) = us_clause_types
    /\ SubSeq(indian_clause_types, 13, 15) = << "Compliance", "Registration", "Stamp Duty" >>
    /\ Range(high_risk_clauses) \cap Range(medium_risk_clauses) = {}
    /\ Range(high_risk_clauses) \cup Range(medium_risk_clauses)
        \subseteq Range(us_clause_types) \cap Range(indian_clause_types)
    /\ ( /\ Returned("_determine_risk_level")
         /\ call.clause_type \in Range(medium_risk_clauses) )
            => ret.value = (IF call.confidence > 6000 THEN "medium" ELSE "low")

\* the rule was applied to a label of the medium bucket, which both
\* taxonomies hold, at the threshold of that bucket
C22_Witness ==
    /\ Returned("_determine_risk_level")
    /\ call.clause_type = "Confidentiality"
    /\ call.clause_type \in Range(us_clause_types) \cap Range(indian_clause_types)
    /\ call.confidence = 6000
    /\ ret.value = "low"

----------------------------------------------------------------------------
(* Claims about the preview of a clause *)

\* the i-th character of a string, i from 1
RECURSIVE CharAt(_, _)
CharAt(s, i) == IF i <= Head(s).n THEN Head(s).ch ELSE CharAt(Tail(s), i - Head(s).n)

\* C23: a clause of at most 200 characters is its own preview; the preview of
\* a longer clause is its first 200 characters followed by three periods; no
\* preview is longer than 203 characters.
C23_PreviewBounded ==
    Returned("preview") =>
        LET clause == call.clause
            text == ret.value
        IN  /\ StrLen(text) <= 203
            /\ StrLen(clause) <= 200 => text = clause
            /\ StrLen(clause) > 200 =>
                /\ StrLen(text) = 203
                /\ \A i \in 1..200 : CharAt(text, i) = CharAt(clause, i)
                /\ \A i \in 201..203 : CharAt(text, i) = "."

\* a clause of 201 characters, the last of them a period, was cut
C23_Witness ==
    /\ Returned("preview")
    /\ call.clause = StrConcat(Rep("a", 200), Rep(".", 1))
    /\ ret.value = StrConcat(Rep("a", 200), Rep(".", 3))

----------------------------------------------------------------------------
(* Claims about the paragraph pass *)

\* the paragraph as the pass looks at it: trimmed, newlines turned to spaces
Trimmed(raw) == StrReplace(StrStrip(raw), "\n", " ")

\* the paragraph passes the filter of the paragraph pass
Survives(paragraph) ==
    /\ StrLen(paragraph) > 50
    /\ ~StartsWithAny(paragraph, paragraph_prefixes)
    /\ ~MatchesNumbering(paragraph)

\* the trimmed sentence units of a paragraph that are longer than 50, in order
RECURSIVE LongUnits(_)
LongUnits(units) ==
    IF units = << >> THEN << >>
    ELSE (IF StrLen(StrStrip(Head(units))) > 50 THEN << StrStrip(Head(units)) >> ELSE << >>)
            \o LongUnits(Tail(units))

Period == << [ch |-> ".", n |-> 1] >>

\* the string ends with one period and no more
EndsWithOnePeriod(s) == s # << >> /\ s[Len(s)] = [ch |-> ".", n |-> 1]

\* C24, as stated: a surviving paragraph of at most 500 characters is emitted
\* whole; a longer one is never emitted whole but replaced, in order, by its
\* sentence units longer than 50, each ending with exactly one period, its own
\* or an appended one.
C24_ParagraphRule ==
    LET paragraph == Trimmed(call.paragraph)
        units == LongUnits(SplitSentences(paragraph))
    IN  Returned("paragraph_pass") /\ Survives(paragraph) =>
            IF StrLen(paragraph) <= 500 THEN ret.value = << paragraph >>
            ELSE /\ ret.value # << paragraph >>
                 /\ Len(ret.value) = Len(units)
                 /\ \A i \in DOMAIN units :
                        /\ ret.value[i] \in { units[i], StrConcat(units[i], Period) }
                        /\ EndsWithOnePeriod(ret.value[i])

\* C24, amended: a surviving paragraph of at most 500 characters is emitted
\* whole; a longer one is replaced, in order, by its sentence units longer
\* than 50, each given a period when it does not end with one; a paragraph
\* that is a single sentence is thereby emitted whole, and a unit that ends
\* with several periods keeps them.
C24_ParagraphRuleAppendIfMissing ==
    LET paragraph == Trimmed(call.paragraph)
        units == LongUnits(SplitSentences(paragraph))
    IN  Returned("paragraph_pass") /\ Survives(paragraph) =>
            IF StrLen(paragraph) <= 500 THEN ret.value = << paragraph >>
            ELSE /\ Len(ret.value) = Len(units)
                 /\ \A i \in DOMAIN units :
                        ret.value[i] = (IF units[i][Len(units[i])].ch = "."
                                        THEN units[i]
                                        ELSE StrConcat(units[i], Period))

\* a paragraph longer than 500 characters of six sentences, one of them of 50
\* characters: five clauses, the first with an appended period, the last with
\* its own
C24_Witness ==
    /\ Returned("paragraph_pass")
    /\ StrLen(Trimmed(call.paragraph)) > 500
    /\ Len(SplitSentences(Trimmed(call.paragraph))) = 6
    /\ Len(ret.value) = 5
    /\ ret.value[1] = StrConcat(LongSentence, Period)
    /\ ret.value[5] = StrConcat(LongSentence, Period)

----------------------------------------------------------------------------
(* Claims about boilerplate in the clauses *)

\* the clause opens, in any letter case, with one of the three prefixes
OpensWithBoilerplate(clause) ==
    \E prefix \in { Str(<< "w", "h", "e", "r", "e", "a", "s" >>),
                    Str(<< "t", "h", "i", "s", " ", "a", "g", "r", "e", "e", "m", "e", "n", "t" >>),
                    Str(<< "t", "h", "e", " ", "p", "a", "r", "t", "i", "e", "s" >>) } :
        StrTake(StrLower(clause), StrLen(prefix)) = prefix

\* C30, as stated: no clause that extract_clauses returns opens with
\* 'whereas', 'this agreement' or 'the parties', whichever path produced it.
C30_NoBoilerplateClause ==
    Returned("extract_clauses") =>
        \A i \in DOMAIN ret.value : ~OpensWithBoilerplate(ret.value[i])

----------------------------------------------------------------------------
(* Claims about model loading *)

\* all four fields are set and come from the same source
Homogeneous ==
    \E source \in {"primary", "fallback"} : \A f \in DOMAIN Self : Self[f] = source

\* the step ran load_models: it assigned a field or it ended analyze_contract
\* with the loader's exception
LoadTriggered ==
    \/ Self' # Self
    \/ ret' = [op |-> "analyze_contract", raised |-> TRUE]

\* C25, as stated: load_models leaves the four fields set from one source,
\* all primary or, when the primary load raised, all fallback; fields that
\* are so stay so, never a mix of primary and fallback; and analyze_contract
\* runs load_models exactly when us_model or indian_model is unset.
C25_FallbackAsUnit ==
    /\ [](Returned("load_models") => Homogeneous)
    /\ [][Returned("load_models")' => Homogeneous']_vars
    /\ [][(Homogeneous /\ pc = "load_models") => Homogeneous']_vars
    /\ [][pc = "analyze_contract" =>
            ((us_model = None \/ indian_model = None) <=> LoadTriggered)]_vars

----------------------------------------------------------------------------
(* Claims about the consistency of a classification result *)

\* C26, as stated: the risk_level of every successful result is what
\* _determine_risk_level gives for the clause_type and the confidence that
\* the result reports, the confidence rounded to 3 decimals.
C26_RiskMatchesReportedConfidence ==
    Returned("classify_clause") =>
        \A juris \in DOMAIN ret.value :
            LET result == ret.value[juris]
            IN  result.clause_type # "Unknown" =>
                    result.risk_level =
                        _determine_risk_level(result.clause_type, result.confidence)

----------------------------------------------------------------------------
(* Claims about the tallies of a whole analysis *)

\* the sum of the values of a dict of counts
RECURSIVE SumValues(_)
SumValues(counts) ==
    IF DOMAIN counts = {} THEN 0
    ELSE LET key == CHOOSE k \in DOMAIN counts : TRUE
         IN  counts[key] + SumValues([k \in DOMAIN counts \ {key} |-> counts[k]])

\* C28: in every result of analyze_contract with at least one clause and a
\* selector among us / indian / both, for each requested jurisdiction the
\* three risk counts sum to total_clauses and so do the clause type counts;
\* the results of the failure path are counted.
C28_CountsConserved ==
    ( /\ Returned("analyze_contract")
      /\ call.jurisdiction \in {"us", "indian", "both"}
      /\ ret.value.total_clauses >= 1 ) =>
        \A juris \in Requested(call.jurisdiction) :
            /\ juris \in DOMAIN ret.value.summary
            /\ SumValues(ret.value.summary[juris].risk_distribution) = ret.value.total_clauses
            /\ SumValues(ret.value.summary[juris].clause_types) = ret.value.total_clauses

\* a result of three clauses under both jurisdictions, one of whose us
\* classifications failed: the Unknown is in the tally
C28_Witness ==
    /\ Returned("analyze_contract")
    /\ call.jurisdiction = "both"
    /\ ret.value.total_clauses = 3
    /\ Cardinality({ i \in DOMAIN invocations : invocations[i]["us"] = "raised" }) = 1
    /\ ret.value.summary["us"].clause_types["Unknown"] = 1
    /\ SumValues(ret.value.summary["us"].clause_types) = 3
    /\ SumValues(ret.value.summary["indian"].risk_distribution) = 3

\* C29: when the capability failed for every clause of a document of n >= 1
\* clauses under a jurisdiction, the summary of that jurisdiction is
\* {high: 0, medium: n, low: 0}, {Unknown: n}, overall medium.
C29_TotalOutageIsMedium ==
    ( /\ Returned("analyze_contract")
      /\ ret.value.total_clauses >= 1 ) =>
        \A juris \in {"us", "indian"} :
            (\A i \in DOMAIN invocations : invocations[i][juris] = "raised") =>
                /\ juris \in DOMAIN ret.value.summary
                /\ ret.value.summary[juris] =
                    [risk_distribution |->
                        [high |-> 0, medium |-> ret.value.total_clauses, low |-> 0],
                     clause_types |-> [t \in {"Unknown"} |-> ret.value.total_clauses],
                     overall_risk |-> "medium"]

\* the capability failed under us for each of four clauses while it answered
\* under indian
C29_Witness ==
    /\ Returned("analyze_contract")
    /\ call.jurisdiction = "both"
    /\ ret.value.total_clauses = 4
    /\ \A i \in DOMAIN invocations :
        invocations[i]["us"] = "raised" /\ invocations[i]["indian"] = "ok"
    /\ ret.value.summary["us"].overall_risk = "medium"
    /\ ret.value.summary["us"].risk_distribution["medium"] = 4

----------------------------------------------------------------------------
(* Claims about the two overall risks of one run *)

\* C27, as stated: for every list of clause analyses and every jurisdiction
\* the overall risk level that the rule-based risk assessment states is the
\* overall_risk of the summary of that jurisdiction.
C27_OverallRisksAgree ==
    Returned("generate_risk_assessment") =>
        \A juris \in DOMAIN ret.value.risk_assessments :
            ret.value.risk_assessments[juris].detailed_assessment.overall_risk
                = Upper(ret.value.summary[juris].overall_risk)

----------------------------------------------------------------------------
(* Claims about the result that the application stores *)

\* the result has been through every step that the inputs of the run ask
\* for: the analysis, the risk assessments, the comparison
Complete(results, inputs) ==
    /\ {"total_clauses", "clause_analyses", "summary"} \subseteq DOMAIN results
    /\ inputs.include_risk_assessment <=> "risk_assessments" \in DOMAIN results
    /\ inputs.include_risk_assessment =>
            DOMAIN results.risk_assessments
                = Requested(inputs.jurisdiction) \cap DOMAIN results.summary
    /\ (inputs.include_comparison /\ inputs.jurisdiction = "both")
            <=> "comparison" \in DOMAIN results

\* C21: the stored analysis result is replaced only by the store that follows
\* text extraction, clause analysis, risk assessment and comparison, and then
\* by the complete result of the run; a step that raises leaves the stored
\* result, and with it what the dashboard shows, as it was.
C21_StoredOnlyWhenComplete ==
    /\ [][results_dashboard_tab' # results_dashboard_tab =>
            /\ pc = "app.store"
            /\ results_dashboard_tab' = analysis_results
            /\ Complete(analysis_results, call)]_vars
    /\ [][(ret' # ret /\ ret'.op = "app.analyze_contract" /\ ret'.raised) =>
            session_state' = session_state]_vars

\* a complete result of a run under both jurisdictions is stored, and a later
\* run on one jurisdiction has raised while the text was extracted from the
\* file: the stored result is still the earlier one
C21_Witness ==
    /\ pc = "idle"
    /\ ret = [op |-> "app.analyze_contract", raised |-> TRUE]
    /\ call.jurisdiction = "us"
    /\ call.uploaded_file.kind = "unreadable"
    /\ session_state.analysis_results # Unset
    /\ "comparison" \in DOMAIN session_state.analysis_results
    /\ "risk_assessments" \in DOMAIN session_state.analysis_results
    /\ session_state.analysis_results.total_clauses = 1

====
